---------------------------- MODULE Spec2Model ----------------------------
(***************************************************************************)
(* A model of datetimecalc: the duration parser (parse_timedelta_str), the *)
(* timezone scanner (search_tz) and the expression evaluator               *)
(* (parse_temporal_expr).                                                  *)
(*                                                                         *)
(* Text is a sequence of characters, each character a string.  The ASCII   *)
(* characters are themselves ("a", "1", " "); a character outside ASCII is *)
(* written by its code point ("U+00B5" is the micro sign).                 *)
(*                                                                         *)
(* A timedelta is the normalized triple Python keeps: days, seconds in     *)
(* 0..86399 and microseconds in 0..999999.                                  *)
(***************************************************************************)
EXTENDS Integers, Sequences, FiniteSets, TLC

VARIABLES
    input_str,    \* parse_timedelta_str: the text handed to the parser
    td_fields,    \* the fields input_str was written from (history)
    td_tail,      \* the text written after the last field (history)
    td_result,    \* what parse_timedelta_str returned or raised
    a_term,       \* parse_temporal_expr: the resolved left operand
    b_term,       \* parse_temporal_expr: the resolved right operand
    op_string,    \* parse_temporal_expr: the operator
    now,          \* parse_temporal_expr: what datetime.utcnow() returned
    expr_result,  \* what parse_temporal_expr returned or raised
    tz_pc,        \* search_tz: start, imported, text, done, again
    tz_env,       \* the runtime the process started in
    tz_regex,     \* the module's tz_regex, compiled at import
    input_date,   \* the text handed to search_tz
    tz_parts,     \* the prefix, token and suffix input_date was written from (history)
    fullmatch,    \* search_tz's fullmatch argument
    tz_result,    \* what search_tz returned or raised
    tz_again,     \* what search_tz returned or raised for the remainder of tz_result
    term_str,     \* parse_temporal_str's input_str
    term_engine,  \* what cal.parseDT answers in this call
    term_result,  \* what parse_temporal_str did and returned or raised
    expr_str,     \* parse_temporal_expr's expression, as text
    text_result,  \* what parse_temporal_expr did with it and returned or raised
    fmt_td,       \* duration_to_string's td
    fmt_locale,   \* the locale name of the process, locale.getlocale()[0]
    fmt_localize, \* duration_to_string's localize
    fmt_result    \* what duration_to_string returned or raised

tdVars == <<input_str, td_fields, td_tail, td_result>>
exprVars == <<a_term, b_term, op_string, now, expr_result>>
tzVars == <<tz_pc, tz_env, tz_regex, input_date, tz_parts, fullmatch, tz_result, tz_again>>
termVars == <<term_str, term_engine, term_result>>
textVars == <<expr_str, text_result>>
fmtVars == <<fmt_td, fmt_locale, fmt_localize, fmt_result>>
vars == <<tdVars, exprVars, tzVars, termVars, textVars, fmtVars>>

(***************************************************************************)
(* Sequences                                                               *)
(***************************************************************************)

\* The positions q, q-1, ..., p: the order a greedy repetition gives back.
Descending(p, q) == [i \in 1..(q - p + 1) |-> q - i + 1]

RECURSIVE Concat(_)
\* The concatenation of a sequence of sequences.
Concat(ss) == IF ss = <<>> THEN <<>> ELSE Head(ss) \o Concat(Tail(ss))

\* s[p..] starts with the literal lit.
StartsWith(s, p, lit) ==
    /\ p + Len(lit) - 1 <= Len(s)
    /\ \A i \in 1..Len(lit) : s[p + i - 1] = lit[i]

(***************************************************************************)
(* Character classes of Python's re on str patterns (Unicode)              *)
(***************************************************************************)

Digits == {"0", "1", "2", "3", "4", "5", "6", "7", "8", "9"}

LowerLetters ==
    {"a", "b", "c", "d", "e", "f", "g", "h", "i", "j", "k", "l", "m",
     "n", "o", "p", "q", "r", "s", "t", "u", "v", "w", "x", "y", "z"}

UpperLetters ==
    {"A", "B", "C", "D", "E", "F", "G", "H", "I", "J", "K", "L", "M",
     "N", "O", "P", "Q", "R", "S", "T", "U", "V", "W", "X", "Y", "Z"}

\* U+00CE (I circumflex) and U+00BC (one quarter) are the two characters the
\* source file holds in the microsecond keyword; U+00B5 is MICRO SIGN and
\* U+03BC is GREEK SMALL LETTER MU.  All four are alphanumeric, so \w.
OtherWordChars == {"U+00CE", "U+00BC", "U+00B5", "U+03BC"}

\* \s
IsSpace(c) == c \in {" ", "\t", "\n"}

\* \d
IsDigit(c) == c \in Digits

\* \w
IsWord(c) == c \in Digits \cup LowerLetters \cup UpperLetters \cup {"_"} \cup OtherWordChars

\* [\s,]
IsSep(c) == IsSpace(c) \/ c = ","

\* A pattern with no \b: every position will do.
NoBoundary(s, p) == p <= Len(s) + 1

\* \b at position p (between s[p-1] and s[p]).
WordBoundary(s, p) ==
    LET left  == p > 1 /\ IsWord(s[p - 1])
        right == p <= Len(s) /\ IsWord(s[p])
    IN  left # right

RECURSIVE SpaceRunEnd(_, _)
\* The position after the longest run of \s starting at p.
SpaceRunEnd(s, p) ==
    IF p <= Len(s) /\ IsSpace(s[p]) THEN SpaceRunEnd(s, p + 1) ELSE p

RECURSIVE DigitRunEnd(_, _)
\* The position after the longest run of \d starting at p.
DigitRunEnd(s, p) ==
    IF p <= Len(s) /\ IsDigit(s[p]) THEN DigitRunEnd(s, p + 1) ELSE p

RECURSIVE SepRunEnd(_, _)
\* The position after the longest run of [\s,] starting at p.
SepRunEnd(s, p) ==
    IF p <= Len(s) /\ IsSep(s[p]) THEN SepRunEnd(s, p + 1) ELSE p

\* \s* from p: the end positions in the order the engine tries them.
SpacesStar(s, p) == Descending(p, SpaceRunEnd(s, p))

\* [\s,]* from p.
SepStar(s, p) == Descending(p, SepRunEnd(s, p))

\* The end positions of \s* from p, as a set.
SpaceRunEndSet(s, p) == p..SpaceRunEnd(s, p)

\* A pattern with no $ at its end: any position ends the match.
AtAnyPosition(s, p) == p <= Len(s) + 1

\* ^ ... $ without re.MULTILINE: $ is the end, or just before a final newline.
AtEnd(s, p) == p = Len(s) + 1 \/ (p = Len(s) /\ s[p] = "\n")


(***************************************************************************)
(* timedelta: the normalized triple, and its arithmetic                    *)
(***************************************************************************)

\* datetime.timedelta's normalization: 0 <= seconds < 86400 and
\* 0 <= microseconds < 1000000, the carries going up (\div and % floor).
TdNorm(d, sec, us) ==
    LET s2 == sec + (us \div 1000000)
    IN  [days         |-> d + (s2 \div 86400),
         seconds      |-> s2 % 86400,
         microseconds |-> us % 1000000]

TdZero == TdNorm(0, 0, 0)

\* timedelta + timedelta
TdAdd(x, y) ==
    TdNorm(x.days + y.days, x.seconds + y.seconds, x.microseconds + y.microseconds)

\* The subtraction the other way round: y - x.
TdSubReversed(x, y) ==
    TdNorm(y.days - x.days, y.seconds - x.seconds, y.microseconds - x.microseconds)

\* timedelta - timedelta
TdSub(x, y) ==
    TdNorm(x.days - y.days, x.seconds - y.seconds, x.microseconds - y.microseconds)

\* timedelta < timedelta: the triples are compared in order.
TdLt(x, y) ==
    \/ x.days < y.days
    \/ x.days = y.days /\ x.seconds < y.seconds
    \/ x.days = y.days /\ x.seconds = y.seconds /\ x.microseconds < y.microseconds

(***************************************************************************)
(* parse_timedelta_str                                                     *)
(***************************************************************************)

\* The named groups of the pattern, in the order of its alternatives.
UnitOrder ==
    <<"years", "months", "weeks", "days", "hours", "minutes", "seconds",
      "microseconds", "milliseconds">>

Units == {UnitOrder[i] : i \in 1..Len(UnitOrder)}

\* What each unit's keyword expression matches, in the order the engine tries
\* the texts: an optional part is tried before its absence.
\*   y(ears?)?   mo(n(ths?)?)?   w((eek|k)s?)?   d(ays?)?   h(rs?|ours?)?
\*   m(in(ute)?s?)?   s(ec(ond)?s?)?
\*   (<U+00CE><U+00BC>s|us|microsec(ond)?s?)   (ms|msec|millisec(ond)?s?)
Keywords(u) ==
    CASE u = "years" ->
           << <<"y","e","a","r","s">>, <<"y","e","a","r">>, <<"y">> >>
      [] u = "months" ->
           << <<"m","o","n","t","h","s">>, <<"m","o","n","t","h">>,
              <<"m","o","n">>, <<"m","o">> >>
      [] u = "weeks" ->
           << <<"w","e","e","k","s">>, <<"w","e","e","k">>,
              <<"w","k","s">>, <<"w","k">>, <<"w">> >>
      [] u = "days" ->
           << <<"d","a","y","s">>, <<"d","a","y">>, <<"d">> >>
      [] u = "hours" ->
           << <<"h","r","s">>, <<"h","r">>, <<"h","o","u","r","s">>,
              <<"h","o","u","r">>, <<"h">> >>
      [] u = "minutes" ->
           << <<"m","i","n","u","t","e","s">>, <<"m","i","n","u","t","e">>,
              <<"m","i","n","s">>, <<"m","i","n">>, <<"m">> >>
      [] u = "seconds" ->
           << <<"s","e","c","o","n","d","s">>, <<"s","e","c","o","n","d">>,
              <<"s","e","c","s">>, <<"s","e","c">>, <<"s">> >>
      [] u = "microseconds" ->
           << <<"U+00CE","U+00BC","s">>, <<"u","s">>,
              <<"m","i","c","r","o","s","e","c","o","n","d","s">>,
              <<"m","i","c","r","o","s","e","c","o","n","d">>,
              <<"m","i","c","r","o","s","e","c","s">>,
              <<"m","i","c","r","o","s","e","c">> >>
      [] u = "milliseconds" ->
           << <<"m","s">>, <<"m","s","e","c">>,
              <<"m","i","l","l","i","s","e","c","o","n","d","s">>,
              <<"m","i","l","l","i","s","e","c","o","n","d">>,
              <<"m","i","l","l","i","s","e","c","s">>,
              <<"m","i","l","l","i","s","e","c">> >>

\* (\.\d+)? after the integer part ending before e: the fraction, longest
\* first; the engine then tries the number without it.
FractionEnds(s, e) ==
    IF e <= Len(s) /\ s[e] = "." /\ DigitRunEnd(s, e + 1) > e + 1
    THEN Descending(e + 2, DigitRunEnd(s, e + 1))
    ELSE <<>>

\* \d+(\.\d+)? from p: the end positions in the order the engine tries them.
NumberEnds(s, p) ==
    LET Ends(ints) ==
            Concat([i \in 1..Len(ints) |-> FractionEnds(s, ints[i]) \o <<ints[i]>>])
    IN  Ends(Descending(p + 1, DigitRunEnd(s, p)))

\* (?P<u>\d+(\.\d+)?)\s*KEYWORD from p: where it ends and what the group holds.
UnitMatches(s, p, u) ==
    LET AtKeyword(nEnd, p2, kws) ==
            Concat([k \in 1..Len(kws) |->
                IF StartsWith(s, p2, kws[k])
                THEN <<[pos |-> p2 + Len(kws[k]), num |-> SubSeq(s, p, nEnd - 1)]>>
                ELSE <<>>])
        AfterNumber(nEnd, sp) ==
            Concat([j \in 1..Len(sp) |-> AtKeyword(nEnd, sp[j], Keywords(u))])
        Number(nums) ==
            Concat([i \in 1..Len(nums) |-> AfterNumber(nums[i], SpacesStar(s, nums[i]))])
    IN  Number(NumberEnds(s, p))

\* No group has taken part in the match: groupdict() gives None (here <<>>).
NoGroups == [u \in Units |-> <<>>]

\* One pass of the repeated group (\s*\b(...|...)[\s,]*\b) from the match
\* state st: the states after it, in the order the engine reaches them.  A
\* named group keeps the text of the last pass it took part in.
FieldPass(s, st) ==
    LET Close(u, num, seps) ==
            Concat([j \in 1..Len(seps) |->
                IF WordBoundary(s, seps[j])
                THEN <<[pos |-> seps[j], groups |-> [st.groups EXCEPT ![u] = num]]>>
                ELSE <<>>])
        Unit(u, ms) ==
            Concat([j \in 1..Len(ms) |-> Close(u, ms[j].num, SepStar(s, ms[j].pos))])
        Open(p) ==
            IF WordBoundary(s, p)
            THEN Concat([k \in 1..Len(UnitOrder) |->
                    Unit(UnitOrder[k], UnitMatches(s, p, UnitOrder[k]))])
            ELSE <<>>
        Lead(sp) ==
            Concat([i \in 1..Len(sp) |-> Open(sp[i])])
    IN  Lead(SpacesStar(s, st.pos))

RECURSIVE FieldPasses(_, _)
\* ( ... )+ from st, greedy: after each pass another is tried before stopping.
FieldPasses(s, st) ==
    LET Again(once) ==
            Concat([i \in 1..Len(once) |-> FieldPasses(s, once[i]) \o <<once[i]>>])
    IN  Again(FieldPass(s, st))

\* pattern.match(input_str): the match states that reach \s*$, in the
\* engine's order; the first is the match, none is no match.
PatternMatches(s) ==
    LET Finish(st) ==
            IF \E p \in SpaceRunEndSet(s, st.pos) : AtEnd(s, p) THEN <<st>> ELSE <<>>
        Ended(sts) ==
            Concat([j \in 1..Len(sts) |-> Finish(sts[j])])
        From(lead) ==
            Concat([i \in 1..Len(lead) |->
                Ended(FieldPasses(s, [pos |-> lead[i], groups |-> NoGroups]))])
    IN  From(SpacesStar(s, 1))

RECURSIVE DigitsValue(_)
\* int() of a run of decimal digits.
DigitsValue(ds) ==
    IF ds = <<>> THEN 0
    ELSE 10 * DigitsValue(SubSeq(ds, 1, Len(ds) - 1))
         + (CHOOSE v \in 0..9 : ToString(v) = ds[Len(ds)])

\* The whole part of the number alone, in tenths: a float that drops the
\* fraction.
floatWhole(val) == 10 * DigitsValue(SubSeq(val, 1, DigitRunEnd(val, 1) - 1))

\* float(val), in tenths: the texts of this model carry at most one digit
\* after the point, so ten times the value is a whole number.
float(val) ==
    LET e == DigitRunEnd(val, 1)
    IN  10 * DigitsValue(SubSeq(val, 1, e - 1))
        + (IF e < Len(val) THEN DigitsValue(<<val[e + 1]>>) ELSE 0)

\* fget(key): the float of the group's text, "0" for a group that is None.
fget(parsed, key) ==
    IF parsed[key] = <<>> THEN float(<<"0">>) ELSE float(parsed[key])

DaysPerYear == 365
DaysPerMonth == 30
DaysPerWeek == 7

\* timedelta(days=, hours=, minutes=, seconds=, microseconds=,
\* milliseconds=) of float arguments, each given here in tenths.  Python
\* carries the fractions down to microseconds and rounds the microseconds
\* once, half to even, in double arithmetic.  A sum that is a whole number of
\* microseconds comes out exact; a sum that is not is rounded to the nearest
\* microsecond, and exactly half way between two the double error of the
\* other arguments decides, so either neighbour is a possible result.
timedelta(days, hours, minutes, seconds, microseconds, milliseconds) ==
    LET wholeDays == days \div 10
        secTenths == hours * 3600 + minutes * 60 + seconds
        wholeSecs == (days % 10) * 8640 + (secTenths \div 10)
        usTenths  == (secTenths % 10) * 1000000 + milliseconds * 1000 + microseconds
        floorUs   == usTenths \div 10
        rest      == usTenths % 10
        rounded   == IF rest = 0 THEN {floorUs}
                     ELSE IF rest < 5 THEN {floorUs}
                     ELSE IF rest > 5 THEN {floorUs + 1}
                     ELSE {floorUs, floorUs + 1}
    IN  {TdNorm(wholeDays, wholeSecs, us) : us \in rounded}

\* The outcomes of a call: a returned timedelta or a raised ValueError.
TdOk(v) == [status |-> "ok", value |-> v]
TdValueError == [status |-> "ValueError", value |-> TdZero]
TdNotCalled == [status |-> "none", value |-> TdZero]

\* parse_timedelta_str(input_str): the set of its possible outcomes.
parse_timedelta_str(s) ==
    LET Build(parsed) ==
            {TdOk(v) : v \in
                timedelta(fget(parsed, "years") * DaysPerYear
                            + fget(parsed, "months") * DaysPerMonth
                            + fget(parsed, "weeks") * DaysPerWeek
                            + fget(parsed, "days"),
                          fget(parsed, "hours"),
                          fget(parsed, "minutes"),
                          fget(parsed, "seconds"),
                          fget(parsed, "microseconds"),
                          fget(parsed, "milliseconds"))}
        Outcome(matches) ==
            IF matches = <<>> THEN {TdValueError} ELSE Build(matches[1].groups)
    IN  Outcome(PatternMatches(s))

(***************************************************************************)
(* The duration texts of the model.  A text is written field by field:     *)
(* what separates the field from the text before it, the number, the gap   *)
(* between number and keyword, the keyword.  td_fields keeps what was       *)
(* written, with the number's value (in tenths) and the unit the keyword    *)
(* is meant for.                                                            *)
(***************************************************************************)

MaxFields == 2

Num(text, tenths) == [text |-> text, tenths |-> tenths]
Kw(text, unit) == [text |-> text, unit |-> unit]
Field(sep, num, gap, kw) == [sep |-> sep, num |-> num, gap |-> gap, kw |-> kw]

\* One keyword of each unit, and the spellings of the microsecond keyword:
\* "us", the word, the source file's two characters, MICRO SIGN + s and
\* GREEK SMALL LETTER MU + s.
UnitKeywords ==
    { Kw(<<"y">>, "years"), Kw(<<"m","o">>, "months"), Kw(<<"w">>, "weeks"),
      Kw(<<"d">>, "days"), Kw(<<"h">>, "hours"), Kw(<<"m">>, "minutes"),
      Kw(<<"s">>, "seconds"), Kw(<<"m","s">>, "milliseconds"),
      Kw(<<"u","s">>, "microseconds"),
      Kw(<<"m","i","c","r","o","s","e","c","o","n","d","s">>, "microseconds"),
      Kw(<<"U+00CE","U+00BC","s">>, "microseconds"),
      Kw(<<"U+00B5","s">>, "microseconds"),
      Kw(<<"U+03BC","s">>, "microseconds") }

UnitNums == { Num(<<"1">>, 10), Num(<<"0",".","5">>, 5) }

\* The fields of the unit texts: every unit, whole and fractional values, a
\* space before each field.
UnitFields ==
    { Field(<<" ">>, n, <<>>, k) : n \in UnitNums, k \in UnitKeywords }

SepNums == { Num(<<"2">>, 20), Num(<<"3","0">>, 300) }

\* "2h", "30 m": a keyword right after its number, and one after a gap.
SepKeywords ==
    { [gap |-> <<>>, kw |-> Kw(<<"h">>, "hours")],
      [gap |-> <<" ">>, kw |-> Kw(<<"m">>, "minutes")] }

\* Nothing, whitespace, a comma, both; and text that is no separator.
Separators == { <<>>, <<" ">>, <<",">>, <<","," ">> }
JunkSeparators == { <<"x"," ">>, <<" ","f","o","o"," ">> }

\* The fields of the grammar texts: few units, every separator.
SepFields ==
    { Field(sp, n, k.gap, k.kw) : sp \in Separators \cup JunkSeparators,
                                  n \in SepNums, k \in SepKeywords }

\* What may follow the last field.
Tails == { <<" ">>, <<",">>, <<"\n">>, <<" ","f","o","o">>, <<"a","b","c">> }

TdInit ==
    /\ input_str = <<>>
    /\ td_fields = <<>>
    /\ td_tail = <<>>
    /\ td_result = TdNotCalled

\* The caller writes one more field.
TdAddField(f) ==
    /\ td_result.status = "none"
    /\ td_tail = <<>>
    /\ Len(td_fields) < MaxFields
    /\ input_str' = input_str \o f.sep \o f.num.text \o f.gap \o f.kw.text
    /\ td_fields' = Append(td_fields, f)
    /\ UNCHANGED <<td_tail, td_result>>

\* The caller ends the text with something that is no field.
TdAddTail(t) ==
    /\ td_result.status = "none"
    /\ td_tail = <<>>
    /\ input_str' = input_str \o t
    /\ td_tail' = t
    /\ UNCHANGED <<td_fields, td_result>>

\* parse_timedelta_str(input_str) is called.
TdParse ==
    /\ td_result.status = "none"
    /\ td_result' \in parse_timedelta_str(input_str)
    /\ UNCHANGED <<input_str, td_fields, td_tail>>


(***************************************************************************)
(* Duration texts: what the claims speak of                                *)
(***************************************************************************)

TdParsed == td_result.status # "none"
TdAccepted == td_result.status = "ok"

\* Only whitespace (or nothing).
IsBlank(t) == \A i \in 1..Len(t) : IsSpace(t[i])

\* Only whitespace and commas (or nothing).
IsSeparator(t) == \A i \in 1..Len(t) : IsSep(t[i])

\* The first field follows at most whitespace, every other field follows
\* whitespace and commas (possibly none), and nothing follows the last.
OnlyFields ==
    /\ td_fields # <<>>
    /\ IsBlank(td_fields[1].sep)
    /\ \A i \in 2..Len(td_fields) : IsSeparator(td_fields[i].sep)
    /\ td_tail = <<>>

\* Consecutive fields have whitespace or a comma between them.
Separated == \A i \in 2..Len(td_fields) : td_fields[i].sep # <<>>

\* No unit occurs in two fields.
DistinctUnits ==
    \A i, j \in 1..Len(td_fields) :
        i # j => td_fields[i].kw.unit # td_fields[j].kw.unit

\* The keywords are written in ASCII letters.
AsciiKeywords ==
    \A i \in 1..Len(td_fields) :
        \A k \in 1..Len(td_fields[i].kw.text) :
            td_fields[i].kw.text[k] \in LowerLetters

\* The fixed unit-length table: year = 365 days, month = 30 days, week = 7
\* days, day = 86400 s, hour = 3600 s, minute = 60 s, millisecond = 1000
\* microseconds.
UnitLength(u) ==
    CASE u = "years"        -> [d |-> 365, s |-> 0, us |-> 0]
      [] u = "months"       -> [d |-> 30, s |-> 0, us |-> 0]
      [] u = "weeks"        -> [d |-> 7, s |-> 0, us |-> 0]
      [] u = "days"         -> [d |-> 1, s |-> 0, us |-> 0]
      [] u = "hours"        -> [d |-> 0, s |-> 3600, us |-> 0]
      [] u = "minutes"      -> [d |-> 0, s |-> 60, us |-> 0]
      [] u = "seconds"      -> [d |-> 0, s |-> 1, us |-> 0]
      [] u = "milliseconds" -> [d |-> 0, s |-> 0, us |-> 1000]
      [] u = "microseconds" -> [d |-> 0, s |-> 0, us |-> 1]

RECURSIVE SumTenths(_)
\* The fields' values times their unit lengths, summed: tenths of days, of
\* seconds and of microseconds.
SumTenths(fs) ==
    IF fs = <<>> THEN [d |-> 0, s |-> 0, us |-> 0]
    ELSE LET r == SumTenths(Tail(fs))
             w == UnitLength(Head(fs).kw.unit)
             v == Head(fs).num.tenths
         IN  [d |-> r.d + v * w.d, s |-> r.s + v * w.s, us |-> r.us + v * w.us]

\* The exact weighted sum of the fields: the whole microseconds as a
\* timedelta, and the tenths of a microsecond left over.
WeightedSum(fs) ==
    LET t    == SumTenths(fs)
        secT == t.s + (t.d % 10) * 86400
        usT  == t.us + (secT % 10) * 1000000
    IN  [whole |-> TdNorm(t.d \div 10, secT \div 10, usT \div 10),
         rest  |-> usT % 10]

\* v is the weighted sum of the fields, exactly.
IsExactSum(v) ==
    LET e == WeightedSum(td_fields)
    IN  e.rest = 0 /\ v = e.whole

\* v is the weighted sum of the fields, or the whole number of microseconds
\* nearest to it when the sum is none; a sum half way between two may go
\* either way.
IsNearestSum(v) ==
    LET e    == WeightedSum(td_fields)
        up   == TdAdd(e.whole, TdNorm(0, 0, 1))
    IN  IF e.rest < 5 THEN v = e.whole
        ELSE IF e.rest > 5 THEN v = up
        ELSE v \in {e.whole, up}

\* C5's texts: fields only, separated, each unit at most once, in any order.
C5_Case == OnlyFields /\ Separated /\ DistinctUnits /\ AsciiKeywords

\* C5 (as claimed): a text in which each unit appears at most once parses to
\* the Duration equal to the exact weighted sum of its fields.
C5_ExactWeightedSum ==
    (TdParsed /\ C5_Case) => (TdAccepted /\ IsExactSum(td_result.value))

\* C5 (amended): such a text parses to the Duration equal to the weighted sum
\* of its fields when that sum is a whole number of microseconds, and to the
\* Duration of whole microseconds nearest to the sum when it is not (a half
\* microsecond going either way).
C5_NearestWeightedSum ==
    (TdParsed /\ C5_Case) => (TdAccepted /\ IsNearestSum(td_result.value))

\* "0.5us 0.5y" was parsed: two units, fractional values, a sum that is no
\* whole number of microseconds.
C5_Witness ==
    /\ TdAccepted /\ C5_Case
    /\ Len(td_fields) = 2
    /\ td_fields[1].kw.unit = "microseconds" /\ td_fields[1].num.tenths = 5
    /\ td_fields[2].kw.unit = "years" /\ td_fields[2].num.tenths = 5
    /\ WeightedSum(td_fields).rest # 0

\* What C6 calls unmatched content: no field at all, something other than
\* whitespace before the first field, something other than whitespace and
\* commas between two fields, or something other than whitespace after the
\* last field.
C6_Case ==
    \/ td_fields = <<>>
    \/ ~IsBlank(td_fields[1].sep)
    \/ \E i \in 2..Len(td_fields) : ~IsSeparator(td_fields[i].sep)
    \/ ~IsBlank(td_tail)

\* C6: parse_timedelta_str returns no Duration for a text that is empty or
\* blank, has no field, or has unmatched content before, between or after
\* its fields: it raises ValueError.
C6_NoPartialResult ==
    (TdParsed /\ C6_Case) => td_result.status = "ValueError"

\* "2h foo" was parsed: a valid field, then unmatched content.
C6_Witness ==
    /\ td_result.status = "ValueError"
    /\ Len(td_fields) = 1 /\ td_fields[1].sep = <<>>
    /\ td_tail = <<" ", "f", "o", "o">>

\* C7 (as claimed): a text in which a unit occurs in more than one field is
\* accepted and every occurrence is summed.
C7_RepeatsSummed ==
    (TdParsed /\ OnlyFields /\ Separated /\ AsciiKeywords /\ ~DistinctUnits)
        => (TdAccepted /\ IsNearestSum(td_result.value))

C9_MicroSign ==
    (/\ TdParsed /\ OnlyFields /\ Len(td_fields) = 1
     /\ td_fields[1].kw.unit = "microseconds"
     /\ td_fields[1].kw.text[1] \in {"u", "m", "U+00B5", "U+03BC"})
        => (TdAccepted /\ IsNearestSum(td_result.value))


(***************************************************************************)
(* tzinfo values and the zone database                                     *)
(*                                                                         *)
(* Times are minutes on a short calendar.  A zone of the database has a    *)
(* standard offset and, between two UTC instants, a daylight offset.       *)
(***************************************************************************)

TzNone == [type |-> "NoneType", key |-> "", offset |-> 0]

\* datetime.timezone(timedelta(minutes=m))
FixedTz(m) == [type |-> "timezone", key |-> "", offset |-> m]

\* zoneinfo.ZoneInfo(key), for a key of the database
NamedTz(key) == [type |-> "ZoneInfo", key |-> key, offset |-> 0]

NoDst(off) == [std |-> off, dst |-> off, start |-> 0, end |-> 0]
Dst(std, dst, start, end) == [std |-> std, dst |-> dst, start |-> start, end |-> end]

\* The zone database: zoneinfo.available_timezones() and each zone's rule.
\* Europe changes at 02:00 and 08:00 UTC of the calendar's first day,
\* America/New_York at 06:00 and 11:00 UTC.
ZoneRules(key) ==
    CASE key = "UTC"              -> NoDst(0)
      [] key = "GMT"              -> NoDst(0)
      [] key = "EST"              -> NoDst(-300)
      [] key = "GB"               -> Dst(0, 60, 120, 480)
      [] key = "Europe/London"    -> Dst(0, 60, 120, 480)
      [] key = "Europe/Lisbon"    -> Dst(0, 60, 120, 480)
      [] key = "Europe/Paris"     -> Dst(60, 120, 120, 480)
      [] key = "America/New_York" -> Dst(-300, -240, 360, 660)

ZoneKeys ==
    {"UTC", "GMT", "EST", "GB", "Europe/London", "Europe/Lisbon",
     "Europe/Paris", "America/New_York"}

\* The zone's UTC offset at the UTC instant t.
OffsetAtInstant(tz, t) ==
    IF tz.type = "timezone" THEN tz.offset
    ELSE LET r == ZoneRules(tz.key)
         IN  IF r.start <= t /\ t < r.end THEN r.dst ELSE r.std

\* tz.utcoffset(dt) for a dt whose clock reads wall, in minutes.  A ZoneInfo
\* takes the reading as the zone's own local time (fold=0): daylight time
\* holds from the local reading start+dst to the local reading end+dst.
UtcOffsetMinutes(tz, wall) ==
    IF tz.type = "timezone" THEN tz.offset
    ELSE LET r == ZoneRules(tz.key)
         IN  IF r.start + r.dst <= wall /\ wall < r.end + r.dst THEN r.dst ELSE r.std

\* The reading lies in the zone's gap or overlap: utcoffset depends on fold.
FoldSensitive(tz, wall) ==
    /\ tz.type = "ZoneInfo"
    /\ LET r == ZoneRules(tz.key)
       IN  \/ r.start + r.std <= wall /\ wall < r.start + r.dst
           \/ r.end + r.std <= wall /\ wall < r.end + r.dst

Minutes(m) == TdNorm(0, m * 60, 0)

\* tz.utcoffset(dt) as the timedelta Python returns.
utcoffset(tz, wall) == Minutes(UtcOffsetMinutes(tz, wall))

(***************************************************************************)
(* Resolved terms and results                                              *)
(***************************************************************************)

\* A datetime: its clock reading in minutes and its tzinfo (TzNone: naive).
Datetime(wall, tz) == [type |-> "datetime", wall |-> wall, td |-> TdZero, tz |-> tz, flag |-> FALSE]
Timedelta(td) == [type |-> "timedelta", wall |-> 0, td |-> td, tz |-> TzNone, flag |-> FALSE]
\* A tzinfo term: a ZoneInfo or a datetime.timezone.
Tzinfo(tz) == [type |-> tz.type, wall |-> 0, td |-> TdZero, tz |-> tz, flag |-> FALSE]
Bool(b) == [type |-> "bool", wall |-> 0, td |-> TdZero, tz |-> TzNone, flag |-> b]
NoTerm == [type |-> "none", wall |-> 0, td |-> TdZero, tz |-> TzNone, flag |-> FALSE]

\* What a call returned, or the exception it raised (message: the text of a
\* ValueError, given by its parts).
Returned(v) == [raised |-> "", value |-> v, message |-> <<>>]
Raised(exc, msg) == [raised |-> exc, value |-> NoTerm, message |-> msg]
NotCalled == [raised |-> "none", value |-> NoTerm, message |-> <<>>]

is_datetime(obj) == obj.type = "datetime"
is_timedelta(obj) == obj.type = "timedelta"
is_timezone(obj) == obj.type \in {"ZoneInfo", "timezone"}

\* type(obj).__name__
TypeName(obj) == obj.type

Operators == {"+", "-", "<", "<=", ">", ">=", "==", "!=", "@"}
Comparisons == {"<", "<=", ">", ">=", "==", "!="}

\* operator.lt, le, gt, ge, eq, ne on two timedeltas.
TdCompare(op, x, y) ==
    CASE op = "<"  -> TdLt(x, y)
      [] op = "<=" -> TdLt(x, y) \/ x = y
      [] op = ">"  -> TdLt(y, x)
      [] op = ">=" -> TdLt(y, x) \/ x = y
      [] op = "==" -> x = y
      [] op = "!=" -> x # y

\* op_func(a, b) for two timedeltas.  The function of "@" calls
\* a.astimezone, which a timedelta does not have.
TimedeltaOp(op, x, y) ==
    CASE op = "+" -> Returned(Timedelta(TdAdd(x, y)))
      [] op = "-" -> Returned(Timedelta(TdSub(x, y)))
      [] op = "@" -> Raised("AttributeError", <<"astimezone">>)
      [] OTHER    -> Returned(Bool(TdCompare(op, x, y)))

IsAware(dt) == dt.tz.type # "NoneType"

\* The datetime as minutes of UTC, for an aware datetime.
UtcMinutes(dt) == dt.wall - UtcOffsetMinutes(dt.tz, dt.wall)

\* Two aware datetimes of one tzinfo are compared and subtracted by their
\* clock readings; of two different tzinfo, by their UTC instants.
\* ZoneInfo(key) is one object per key; two datetime.timezone objects of one
\* offset give the same results either way.
SameTzinfo(x, y) == x.tz = y.tz

\* op_func(a, b) for two datetimes, op one of "-" and the comparisons.
DatetimeOp(op, x, y) ==
    IF IsAware(x) # IsAware(y)
    THEN CASE op = "==" -> Returned(Bool(FALSE))
           [] op = "!=" -> Returned(Bool(TRUE))
           [] op = "-"  -> Raised("TypeError", <<"can't subtract offset-naive and offset-aware datetimes">>)
           [] OTHER     -> Raised("TypeError", <<"can't compare offset-naive and offset-aware datetimes">>)
    ELSE LET byWall == ~IsAware(x) \/ SameTzinfo(x, y)
             xm == IF byWall THEN x.wall ELSE UtcMinutes(x)
             ym == IF byWall THEN y.wall ELSE UtcMinutes(y)
             \* interzone == and != : a reading in a gap or an overlap
             \* equals nothing
             never == ~byWall /\ (FoldSensitive(x.tz, x.wall) \/ FoldSensitive(y.tz, y.wall))
         IN  CASE op = "-"  -> Returned(Timedelta(Minutes(xm - ym)))
               [] op = "==" -> Returned(Bool(~never /\ xm = ym))
               [] op = "!=" -> Returned(Bool(never \/ xm # ym))
               [] OTHER     -> Returned(Bool(TdCompare(op, Minutes(xm), Minutes(ym))))

\* datetime + timedelta and datetime - timedelta: the clock reading moves,
\* the tzinfo stays.  (The readings of this model are whole minutes.)
DatetimeShift(op, x, d) ==
    LET m == d.days * 1440 + (d.seconds \div 60)
    IN  Returned(Datetime(IF op = "+" THEN x.wall + m ELSE x.wall - m, x.tz))

\* dt.astimezone(tz): dt itself when tz is its tzinfo; otherwise the same
\* instant, read in tz.  A naive dt is taken to be in the process's local
\* time, local minutes from UTC.
Astimezone(x, tz, local) ==
    LET utc == IF IsAware(x) THEN UtcMinutes(x) ELSE x.wall - local
    IN  IF IsAware(x) /\ x.tz = tz THEN Returned(x)
        ELSE Returned(Datetime(utc + OffsetAtInstant(tz, utc), tz))

\* parse_temporal_expr once both operands are resolved: the dispatch on the
\* operands' types and the operator.
Dispatch(a, op, b, utcnow, local) ==
    LET unsupported == Raised("ValueError", <<"Unsupported operation", TypeName(a), op, TypeName(b)>>)
    IN  IF is_datetime(a) /\ is_timedelta(b)
        THEN IF op \in {"+", "-"} THEN DatetimeShift(op, a, b.td) ELSE unsupported
        ELSE IF is_datetime(a) /\ is_datetime(b)
        THEN IF op \in {"-", "<", "<=", ">", ">=", "==", "!="}
             THEN DatetimeOp(op, a, b) ELSE unsupported
        ELSE IF is_datetime(a) /\ is_timezone(b)
        THEN IF op \in {"@"} THEN Astimezone(a, b.tz, local) ELSE unsupported
        ELSE IF is_timedelta(a) /\ is_timedelta(b)
        THEN TimedeltaOp(op, a.td, b.td)
        ELSE IF is_timezone(a) /\ is_timezone(b)
        THEN IF op \in {"-", "<", "<=", ">", ">=", "==", "!="}
             THEN TimedeltaOp(op, utcoffset(a.tz, utcnow), utcoffset(b.tz, utcnow))
             ELSE unsupported
        ELSE unsupported

(***************************************************************************)
(* The expressions of the model: every pair of resolved terms, every       *)
(* operator, every reading of the clock.                                   *)
(***************************************************************************)

MaxClockHour == 11

\* datetime.utcnow(): a naive reading of UTC.
Clock == {60 * h : h \in 0..MaxClockHour}

\* The process's local UTC offset, for astimezone of a naive datetime.
LocalOffsets == {0, -300}

TermTimezones ==
    {NamedTz("UTC"), NamedTz("Europe/London"), NamedTz("Europe/Lisbon"),
     NamedTz("Europe/Paris"), NamedTz("America/New_York"),
     FixedTz(0), FixedTz(60), FixedTz(-300)}

\* Naive and zoned instants; 02:30 lies in Europe/London's gap.
TermDatetimes ==
    {Datetime(w, tz) : w \in {90, 150, 600},
                       tz \in {TzNone, NamedTz("UTC"), NamedTz("Europe/London"), FixedTz(60)}}

TermTimedeltas == {Timedelta(TdNorm(1, 0, 0)), Timedelta(Minutes(90))}

Terms == TermDatetimes \cup TermTimedeltas \cup {Tzinfo(tz) : tz \in TermTimezones}

ExprInit ==
    /\ a_term = NoTerm
    /\ b_term = NoTerm
    /\ op_string = ""
    /\ now = 0
    /\ expr_result = NotCalled

\* parse_temporal_expr on an expression whose operands resolve to a and b.
ParseTemporalExpr(a, op, b, utcnow, local) ==
    /\ a_term' = a
    /\ b_term' = b
    /\ op_string' = op
    /\ now' = utcnow
    /\ expr_result' = Dispatch(a, op, b, utcnow, local)

\* One call, once the previous result is taken.
ExprCall ==
    /\ expr_result.raised = "none"
    /\ \E a \in Terms, b \in Terms, op \in Operators, t \in Clock, l \in LocalOffsets :
           ParseTemporalExpr(a, op, b, t, l)

\* The caller takes the result; the next expression may be given.
ExprDone ==
    /\ expr_result.raised # "none"
    /\ a_term' = NoTerm
    /\ b_term' = NoTerm
    /\ op_string' = ""
    /\ now' = 0
    /\ expr_result' = NotCalled

(***************************************************************************)
(* Properties of parse_temporal_expr                                       *)
(***************************************************************************)

ExprCalled == expr_result.raised # "none"
ExprReturned == expr_result.raised = ""

\* The kinds of operand: Instant, Duration, Timezone.
Kind(term) ==
    IF is_datetime(term) THEN "Instant"
    ELSE IF is_timedelta(term) THEN "Duration"
    ELSE "Timezone"

\* The rows of the operation table.
InTable(left, op, right) ==
    \/ left = "Instant" /\ op \in {"+", "-"} /\ right = "Duration"
    \/ left = "Instant" /\ op \in {"-"} \cup Comparisons /\ right = "Instant"
    \/ left = "Instant" /\ op = "@" /\ right = "Timezone"
    \/ left = "Duration" /\ op \in {"+", "-"} \cup Comparisons /\ right = "Duration"
    \/ left = "Timezone" /\ op \in {"-"} \cup Comparisons /\ right = "Timezone"

UnsupportedOperation ==
    Raised("ValueError", <<"Unsupported operation", TypeName(a_term), op_string, TypeName(b_term)>>)

\* C1: an expression whose (left kind, operator, right kind) is not a row of
\* the operation table fails with the ValueError "Unsupported operation"
\* that names both operands' types and the operator, and with nothing else.
C1_AbsentTripleUnsupported ==
    (ExprCalled /\ ~InTable(Kind(a_term), op_string, Kind(b_term)))
        => expr_result = UnsupportedOperation

InstantPair ==
    /\ ExprCalled
    /\ is_datetime(a_term) /\ is_datetime(b_term)
    /\ op_string \in {"-"} \cup Comparisons

\* C2: two Instants, each naive or zoned, under "-" give a Duration and
\* under a comparison a boolean; never a failure.
C2_InstantPairReturns ==
    InstantPair =>
        /\ ExprReturned
        /\ op_string = "-" => is_timedelta(expr_result.value)
        /\ op_string \in Comparisons => expr_result.value.type = "bool"

TimezonePair ==
    /\ ExprCalled
    /\ is_timezone(a_term) /\ is_timezone(b_term)
    /\ op_string \in {"-"} \cup Comparisons

\* The comparison of two integers.
IntCompare(op, x, y) ==
    CASE op = "<"  -> x < y
      [] op = "<=" -> x <= y
      [] op = ">"  -> x > y
      [] op = ">=" -> x >= y
      [] op = "==" -> x = y
      [] op = "!=" -> x # y

\* The minutes east of UTC the evaluator takes for a zone: a fixed offset's
\* own; a named zone's at the local time that reads as the UTC clock does.
ReadingOffset(tz) == UtcOffsetMinutes(tz, now)

\* The minutes east of UTC a zone is at the moment of the evaluation.
CurrentOffset(tz) == OffsetAtInstant(tz, now)

\* C3 as stated: two Timezones under "-" or a comparison give a boolean.
C3_TimezonePairBool ==
    TimezonePair => (ExprReturned /\ expr_result.value.type = "bool")

\* C3: two Timezones under a comparison give the boolean that compares the
\* two offsets the evaluator takes; under "-" they give the Duration that is
\* the left offset less the right one.
C3_TimezonePairByOffset ==
    TimezonePair =>
        /\ ExprReturned
        /\ op_string \in Comparisons =>
               expr_result.value = Bool(IntCompare(op_string, ReadingOffset(a_term.tz), ReadingOffset(b_term.tz)))
        /\ op_string = "-" =>
               expr_result.value = Timedelta(Minutes(ReadingOffset(a_term.tz) - ReadingOffset(b_term.tz)))

\* A named zone in daylight time less a fixed offset behind it.
C3_Witness ==
    /\ TimezonePair
    /\ op_string = "-"
    /\ a_term.tz.type = "ZoneInfo"
    /\ b_term.tz.type = "timezone"
    /\ ReadingOffset(a_term.tz) # ZoneRules(a_term.tz.key).std
    /\ ReadingOffset(a_term.tz) < ReadingOffset(b_term.tz)
    /\ is_timedelta(expr_result.value)
    /\ expr_result.value.td.days < 0

\* C4: two Timezones whose UTC offsets at the moment of the evaluation are
\* equal are "==" and not "!="; two whose offsets differ are not "==", and
\* "<" holds exactly when the left offset is the smaller.
C4_EqualityByCurrentOffset ==
    (TimezonePair /\ op_string \in {"==", "!=", "<"}) =>
        /\ ExprReturned
        /\ expr_result.value =
               Bool(IntCompare(op_string, CurrentOffset(a_term.tz), CurrentOffset(b_term.tz)))

(***************************************************************************)
(* tz.py: the timezone scanner                                             *)
(*                                                                         *)
(* The runtime a process starts in: time.tzname, the TZ environment        *)
(* variable (empty: unset), time.timezone and time.altzone in seconds      *)
(* west of UTC, and time.localtime().tm_isdst.                             *)
(***************************************************************************)

RECURSIVE Str(_)
\* The text as one string: a zone key as zoneinfo.ZoneInfo keeps it.
Str(cs) == IF cs = <<>> THEN "" ELSE Head(cs) \o Str(Tail(cs))

\* zoneinfo.available_timezones(): the keys of the zone database (a set; the
\* order here is of no consequence, every use sorts).
available_timezones ==
    << <<"U", "T", "C">>, <<"G", "M", "T">>, <<"E", "S", "T">>, <<"C", "E", "T">>, <<"G", "B">>, <<"G", "B", "-", "E", "i", "r", "e">>, <<"G", "M", "T", "+", "0">>, <<"G", "M", "T", "0">>,
       <<"E", "i", "r", "e">>,
       <<"E", "t", "c", "/", "G", "M", "T">>, <<"E", "t", "c", "/", "G", "M", "T", "+", "5">>, <<"E", "t", "c", "/", "G", "M", "T", "-", "5">>,
       <<"E", "u", "r", "o", "p", "e", "/", "L", "o", "n", "d", "o", "n">>, <<"E", "u", "r", "o", "p", "e", "/", "L", "i", "s", "b", "o", "n">>, <<"E", "u", "r", "o", "p", "e", "/", "P", "a", "r", "i", "s">>,
       <<"E", "u", "r", "o", "p", "e", "/", "A", "t", "h", "e", "n", "s">>, <<"E", "u", "r", "o", "p", "e", "/", "B", "e", "r", "l", "i", "n">>,
       <<"A", "m", "e", "r", "i", "c", "a", "/", "N", "e", "w", "_", "Y", "o", "r", "k">>, <<"A", "m", "e", "r", "i", "c", "a", "/", "D", "e", "n", "v", "e", "r">>,
       <<"A", "m", "e", "r", "i", "c", "a", "/", "A", "r", "g", "e", "n", "t", "i", "n", "a", "/", "U", "s", "h", "u", "a", "i", "a">>,
       <<"P", "a", "c", "i", "f", "i", "c", "/", "H", "o", "n", "o", "l", "u", "l", "u">>, <<"P", "a", "c", "i", "f", "i", "c", "/", "A", "u", "c", "k", "l", "a", "n", "d">> >>

Alias(name, key) == [name |-> name, key |-> key]

TZ_ADDITIONS ==
    << Alias(<<"C", "E", "S", "T">>, <<"E", "u", "r", "o", "p", "e", "/", "P", "a", "r", "i", "s">>),
       Alias(<<"E", "E", "S", "T">>, <<"E", "u", "r", "o", "p", "e", "/", "A", "t", "h", "e", "n", "s">>),
       Alias(<<"W", "E", "S", "T">>, <<"E", "u", "r", "o", "p", "e", "/", "L", "i", "s", "b", "o", "n">>),
       Alias(<<"E", "D", "T">>, <<"A", "m", "e", "r", "i", "c", "a", "/", "N", "e", "w", "_", "Y", "o", "r", "k">>),
       Alias(<<"H", "D", "T">>, <<"P", "a", "c", "i", "f", "i", "c", "/", "H", "o", "n", "o", "l", "u", "l", "u">>),
       Alias(<<"M", "D", "T">>, <<"A", "m", "e", "r", "i", "c", "a", "/", "D", "e", "n", "v", "e", "r">>),
       Alias(<<"B", "S", "T">>, <<"E", "u", "r", "o", "p", "e", "/", "L", "o", "n", "d", "o", "n">>),
       Alias(<<"M", "E", "S", "T">>, <<"E", "u", "r", "o", "p", "e", "/", "B", "e", "r", "l", "i", "n">>),
       Alias(<<"N", "Z", "D", "T">>, <<"P", "a", "c", "i", "f", "i", "c", "/", "A", "u", "c", "k", "l", "a", "n", "d">>) >>

\* The characters of the patterns, in code point order.
CodePointOrder ==
    << "\t", "\n", " ", "(", ")", "+", ",", "-", ".", "/",
       "0", "1", "2", "3", "4", "5", "6", "7", "8", "9", ":", "<", "=", "?",
       "A", "B", "C", "D", "E", "F", "G", "H", "I", "J", "K", "L", "M",
       "N", "O", "P", "Q", "R", "S", "T", "U", "V", "W", "X", "Y", "Z",
       "[", "\\", "]", "^", "_",
       "a", "b", "c", "d", "e", "f", "g", "h", "i", "j", "k", "l", "m",
       "n", "o", "p", "q", "r", "s", "t", "u", "v", "w", "x", "y", "z", "|" >>

\* ord(c), up to the order.
CodePoint(c) == CHOOSE i \in 1..Len(CodePointOrder) : CodePointOrder[i] = c

\* x < y for two str: at the first difference by code point, else by length.
StrLess(x, y) ==
    LET n == IF Len(x) < Len(y) THEN Len(x) ELSE Len(y)
        diff == {i \in 1..n : x[i] # y[i]}
    IN  IF diff = {} THEN Len(x) < Len(y)
        ELSE LET i == CHOOSE j \in diff : \A k \in diff : j <= k
             IN  CodePoint(x[i]) < CodePoint(y[i])

RECURSIVE InsertSorted(_, _)
\* x put into the sorted list xs.
InsertSorted(x, xs) ==
    IF xs = <<>> THEN <<x>>
    ELSE IF StrLess(Head(xs), x)
         THEN <<Head(xs)>> \o InsertSorted(x, Tail(xs))
         ELSE <<x>> \o xs

RECURSIVE sorted(_)
\* sorted(items) for a list of str
sorted(items) ==
    IF items = <<>> THEN <<>> ELSE InsertSorted(Head(items), sorted(Tail(items)))

RECURSIVE JoinBar(_)
\* '|'.join(items)
JoinBar(items) ==
    IF items = <<>> THEN <<>>
    ELSE IF Len(items) = 1 THEN Head(items)
    ELSE Head(items) \o <<"|">> \o JoinBar(Tail(items))

\* The pattern text of OFFSET_REGEX.
OFFSET_REGEX ==
    << "(", "?", ":", "(", "?", "<", "=", "[", "\\", "d", "\\", "s", "]", ")", "|", "^", ")",
       "(", "[", "+", "-", "]",
       "(", "?", ":", "0", "[", "0", "-", "9", "]", "|", "1", "[", "0", "-", "4", "]", ")",
       ":",
       "(", "?", ":", "0", "0", "|", "1", "5", "|", "3", "0", "|", "4", "5", ")", ")" >>

\* What OFFSET_REGEX matches at p: (?:(?<=[\d\s])|^) and then the six
\* characters of [+-](?:0[0-9]|1[0-4]):(?:00|15|30|45).
OffsetMatches(s, p) ==
    /\ \/ p > 1 /\ (IsDigit(s[p - 1]) \/ IsSpace(s[p - 1]))
       \/ p = 1
    /\ p + 5 <= Len(s)
    /\ s[p] \in {"+", "-"}
    /\ \/ s[p + 1] = "0" /\ s[p + 2] \in Digits
       \/ s[p + 1] = "1" /\ s[p + 2] \in {"0", "1", "2", "3", "4"}
    /\ s[p + 3] = ":"
    /\ <<s[p + 4], s[p + 5]>> \in { <<"0", "0">>, <<"1", "5">>, <<"3", "0">>, <<"4", "5">> }

\* int(text) for the text of a str: optional blanks around an optional sign
\* and digits.  0 <= value, or -1 for the ValueError.
int(text) ==
    LET first == CHOOSE i \in 1..(Len(text) + 1) :
                     /\ \A j \in 1..(i - 1) : IsSpace(text[j])
                     /\ i = Len(text) + 1 \/ ~IsSpace(text[i])
        last  == CHOOSE i \in 0..Len(text) :
                     /\ \A j \in (i + 1)..Len(text) : IsSpace(text[j])
                     /\ i = 0 \/ ~IsSpace(text[i])
        body  == IF first <= last THEN SubSeq(text, first, last) ELSE <<>>
        signed == body # <<>> /\ Head(body) \in {"+", "-"}
        ds    == IF signed THEN Tail(body) ELSE body
    IN  IF ds = <<>> \/ \E i \in 1..Len(ds) : ~IsDigit(ds[i])
        THEN [error |-> TRUE, value |-> 0]
        ELSE [error |-> FALSE,
              value |-> IF signed /\ Head(body) = "-" THEN -DigitsValue(ds) ELSE DigitsValue(ds)]

\* spec.index(":"): the first colon, from 0; -1 stands for the ValueError.
IndexOfColon(spec) ==
    IF \E i \in 1..Len(spec) : spec[i] = ":"
    THEN (CHOOSE i \in 1..Len(spec) : spec[i] = ":" /\ \A j \in 1..(i - 1) : spec[j] # ":") - 1
    ELSE -1

TzValueError == [error |-> TRUE, tz |-> TzNone]
TzOk(tz) == [error |-> FALSE, tz |-> tz]

\* datetime.timezone(timedelta(minutes=m)): the offset is strictly between
\* -24 and 24 hours, or ValueError.
timezone(m) == IF -1440 < m /\ m < 1440 THEN TzOk(FixedTz(m)) ELSE TzValueError

\* The zone of the hours and minutes alone, east whatever the sign.
offset_timezone_unsigned(spec) ==
    IF Len(spec) # 6 THEN TzValueError
    ELSE LET hours   == int(SubSeq(spec, 2, 3))
             minutes == int(SubSeq(spec, 5, 6))
         IN  IF hours.error \/ minutes.error THEN TzValueError
             ELSE timezone(hours.value * 60 + minutes.value)

\* offset_timezone(spec), for a non-empty spec
offset_timezone(spec) ==
    IF ~(spec[1] \in {"+", "-"} /\ Len(spec) = 6 /\ IndexOfColon(spec) = 3)
    THEN TzValueError
    ELSE LET sign    == spec[1]
             hours   == int(SubSeq(spec, 2, 3))
             minutes == int(SubSeq(spec, 5, 6))
         IN  IF hours.error \/ minutes.error THEN TzValueError
             ELSE LET offset_in_minutes == hours.value * 60 + minutes.value
                  IN  timezone(IF sign = "-" THEN -offset_in_minutes ELSE offset_in_minutes)

\* The span blanked, not deleted: the text keeps its length.
delspan_blanked(string, begin, end) ==
    IF ~(0 <= begin /\ begin <= end /\ end <= Len(string))
    THEN [error |-> TRUE, text |-> <<>>]
    ELSE [error |-> FALSE,
          text |-> [i \in 1..Len(string) |-> IF begin < i /\ i <= end THEN " " ELSE string[i]]]

\* delspan(string, span), the span counted from 0
delspan(string, begin, end) ==
    IF ~(0 <= begin /\ begin <= end /\ end <= Len(string))
    THEN [error |-> TRUE, text |-> <<>>]
    ELSE [error |-> FALSE,
          text |-> SubSeq(string, 1, begin) \o SubSeq(string, end + 1, Len(string))]

\* '(?:a|b|c)'
noncapture_join(items) == <<"(", "?", ":">> \o JoinBar(sorted(items)) \o <<")">>

\* r'\b(a|b|c)\b'
bounded_capture_join(items) == <<"\\", "b", "(">> \o JoinBar(sorted(items)) \o <<")", "\\", "b">>

\* tzname.find("/"): from 0, -1 when there is none
FindSlash(tzname) ==
    IF \E i \in 1..Len(tzname) : tzname[i] = "/"
    THEN (CHOOSE i \in 1..Len(tzname) : tzname[i] = "/" /\ \A j \in 1..(i - 1) : tzname[j] # "/") - 1
    ELSE -1

\* grouped_tzs["ROOT"]
RootNames == SelectSeq(available_timezones, LAMBDA n : FindSlash(n) = -1)

\* tzname[0:slashidx] and tzname[slashidx + 1:]
RegionOf(tzname) == SubSeq(tzname, 1, FindSlash(tzname))
SubregionOf(tzname) == SubSeq(tzname, FindSlash(tzname) + 2, Len(tzname))

\* The keys of grouped_tzs other than "ROOT".
Regions == {RegionOf(available_timezones[i]) : i \in {j \in 1..Len(available_timezones) : FindSlash(available_timezones[j]) # -1}}

\* grouped_tzs[region]
Subregions(region) ==
    LET named == SelectSeq(available_timezones, LAMBDA n : FindSlash(n) # -1 /\ RegionOf(n) = region)
    IN  [i \in 1..Len(named) |-> SubregionOf(named[i])]

RECURSIVE SetToSeq(_)
\* The elements of a set, one after another.
SetToSeq(S) ==
    IF S = {} THEN <<>>
    ELSE LET x == CHOOSE y \in S : TRUE IN <<x>> \o SetToSeq(S \ {x})

\* f"{region}/{noncapture_join(subregions)}"
RegionText(region) == region \o <<"/">> \o noncapture_join(Subregions(region))

\* One alternative of the name group, compiled from its pattern text: the
\* literal text it starts with and, for a region, the alternatives that
\* follow, in the order of the pattern.
Compiled(text) ==
    IF \E r \in Regions : text = RegionText(r)
    THEN LET r == CHOOSE q \in Regions : text = RegionText(q)
         IN  [head |-> r \o <<"/">>, subs |-> sorted(Subregions(r))]
    ELSE [head |-> text, subs |-> <<>>]

\* gen_tz_regex(): the compiled pattern, as the alternatives in the order
\* the two joins sort them into.
gen_tz_regex(tzname) ==
    LET Parts(regions) ==
            RootNames
            \o [i \in 1..Len(regions) |-> RegionText(regions[i])]
            \o [i \in 1..Len(TZ_ADDITIONS) |-> TZ_ADDITIONS[i].name]
            \o tzname
        Names(ordered) == [i \in 1..Len(ordered) |-> Compiled(ordered[i])]
        Pattern(tz_regex_parts) ==
            [offset_first |-> StrLess(OFFSET_REGEX, bounded_capture_join(tz_regex_parts)),
             names |-> Names(sorted(tz_regex_parts))]
    IN  Pattern(Parts(SetToSeq(Regions)))

NoRegex == [offset_first |-> FALSE, names |-> <<>>]

RECURSIVE LiteralEnds(_, _, _, _)
\* Where the pattern text pat[k..] can end when matched from s[p]: each
\* character is itself, but for "+", which repeats the character before it
\* once or more, the longest run first.
LiteralEnds(pat, k, s, p) ==
    IF k > Len(pat) THEN <<p>>
    ELSE IF k + 1 <= Len(pat) /\ pat[k + 1] = "+"
    THEN LET run == CHOOSE n \in 0..(Len(s) - p + 1) :
                        /\ \A i \in 0..(n - 1) : s[p + i] = pat[k]
                        /\ p + n > Len(s) \/ s[p + n] # pat[k]
         IN  Concat([i \in 1..run |-> LiteralEnds(pat, k + 2, s, p + run - i + 1)])
    ELSE IF p <= Len(s) /\ s[p] = pat[k] THEN LiteralEnds(pat, k + 1, s, p + 1)
    ELSE <<>>

\* Where one alternative of the name group can end when matched from s[p].
PartEnds(part, s, p) ==
    IF part.subs = <<>> THEN LiteralEnds(part.head, 1, s, p)
    ELSE LET After(heads) ==
                 Concat([i \in 1..Len(heads) |->
                     Concat([j \in 1..Len(part.subs) |-> LiteralEnds(part.subs[j], 1, s, heads[i])])])
         IN  After(LiteralEnds(part.head, 1, s, p))

Match(group, begin, end) == [group |-> group, begin |-> begin, end |-> end]
NoMatch == Match(0, 0, 0)

\* The matches of tz_regex that begin at p, in the order the engine finds
\* them: group 1 is the offset, group 2 the name between two \b.
MatchesAt(regex, s, p) ==
    LET offset == IF OffsetMatches(s, p) THEN <<Match(1, p, p + 6)>> ELSE <<>>
        ends   == IF WordBoundary(s, p)
                  THEN Concat([i \in 1..Len(regex.names) |-> PartEnds(regex.names[i], s, p)])
                  ELSE <<>>
        Names(bounded) == [i \in 1..Len(bounded) |-> Match(2, p, bounded[i])]
        Ordered(names) == IF regex.offset_first THEN offset \o names ELSE names \o offset
    IN  Ordered(Names(SelectSeq(ends, LAMBDA e : WordBoundary(s, e))))

RECURSIVE SearchFrom(_, _, _)
\* tz_regex.search: the first match at the leftmost position that has one.
SearchFrom(regex, s, p) ==
    IF p > Len(s) + 1 THEN NoMatch
    ELSE LET First(ms) == IF ms # <<>> THEN Head(ms) ELSE SearchFrom(regex, s, p + 1)
         IN  First(MatchesAt(regex, s, p))

\* tz_regex.fullmatch: the first match from the start that ends at the end.
FullMatch(regex, s) ==
    LET First(ms) == IF ms # <<>> THEN Head(ms) ELSE NoMatch
    IN  First(SelectSeq(MatchesAt(regex, s, 1), LAMBDA m : m.end = Len(s) + 1))

\* What search_tz returned: (tz, filtered_input), or (None, None) when tz is
\* TzNone; or the exception it raised.  lookups: the keys zoneinfo.ZoneInfo
\* was called with.
TzFound(tz, filtered, lookups) ==
    [raised |-> "", found |-> TRUE, tz |-> tz, filtered_input |-> filtered, lookups |-> lookups]
TzNotFound(lookups) ==
    [raised |-> "", found |-> FALSE, tz |-> TzNone, filtered_input |-> <<>>, lookups |-> lookups]
TzRaised(exc, lookups) ==
    [raised |-> exc, found |-> FALSE, tz |-> TzNone, filtered_input |-> <<>>, lookups |-> lookups]
TzNotCalled ==
    [raised |-> "none", found |-> FALSE, tz |-> TzNone, filtered_input |-> <<>>, lookups |-> <<>>]

\* A zone database in which no key is found.
IsNoZoneKey(key) == FALSE

\* zoneinfo.ZoneInfo(key) finds the key in the database.
IsZoneKey(key) == \E i \in 1..Len(available_timezones) : available_timezones[i] = key

\* TZ_ADDITIONS[name], or <<>> for the KeyError
Addition(name) ==
    IF \E i \in 1..Len(TZ_ADDITIONS) : TZ_ADDITIONS[i].name = name
    THEN (TZ_ADDITIONS[CHOOSE i \in 1..Len(TZ_ADDITIONS) : TZ_ADDITIONS[i].name = name]).key
    ELSE <<>>

\* search_tz(input_date, fullmatch), in the runtime env and with the
\* pattern regex compiled at import.
search_tz(regex, env, s, full) ==
    LET utc_offset_sec == IF env.tm_isdst # 0 THEN env.altzone ELSE env.timezone
        Resolve(name, del, offset, local, added) ==
            IF del.error THEN TzRaised("ValueError", <<>>)
            ELSE IF ~offset.error THEN TzFound(offset.tz, del.text, <<>>)
            ELSE IF IsZoneKey(name) THEN TzFound(NamedTz(Str(name)), del.text, <<Str(name)>>)
            ELSE IF \E i \in 1..Len(env.tzname) : env.tzname[i] = name
            THEN IF env.TZ # <<>>
                 THEN IF IsZoneKey(env.TZ)
                      THEN TzFound(NamedTz(Str(env.TZ)), del.text, <<Str(name), Str(env.TZ)>>)
                      ELSE TzRaised("ZoneInfoNotFoundError", <<Str(name), Str(env.TZ)>>)
                 ELSE IF local.error THEN TzRaised("ValueError", <<Str(name)>>)
                      ELSE TzFound(local.tz, del.text, <<Str(name)>>)
            ELSE IF added = <<>> THEN TzNotFound(<<Str(name)>>)
            ELSE IF IsZoneKey(added) THEN TzFound(NamedTz(Str(added)), del.text, <<Str(name), Str(added)>>)
            ELSE TzNotFound(<<Str(name), Str(added)>>)
        Named(name, del) ==
            Resolve(name, del, offset_timezone(name), timezone(utc_offset_sec \div 60), Addition(name))
        Matched(match) ==
            IF match = NoMatch THEN TzNotFound(<<>>)
            ELSE Named(SubSeq(s, match.begin, match.end - 1),
                       delspan(s, match.begin - 1, match.end - 1))
    IN  Matched(IF full THEN FullMatch(regex, s) ELSE SearchFrom(regex, s, 1))

(***************************************************************************)
(* The runtimes and the texts of the model                                 *)
(***************************************************************************)

Runtime(tzname, tz, timezone_sec, altzone_sec, isdst) ==
    [tzname |-> tzname, TZ |-> tz, timezone |-> timezone_sec, altzone |-> altzone_sec, tm_isdst |-> isdst]

NoRuntime == Runtime(<<>>, <<>>, 0, 0, 0)

Runtimes ==
    { Runtime(<< <<"U", "T", "C">>, <<"U", "T", "C">> >>, <<>>, 0, 0, 0),
      Runtime(<< <<"E", "S", "T">>, <<"E", "D", "T">> >>, <<"A", "m", "e", "r", "i", "c", "a", "/", "N", "e", "w", "_", "Y", "o", "r", "k">>, 18000, 14400, 1),
      Runtime(<< <<"P", "S", "T">>, <<"P", "D", "T">> >>, <<>>, 28800, 25200, 1),
      Runtime(<< <<"P", "S", "T">>, <<"P", "D", "T">> >>, <<>>, 28800, 25200, 0),
      Runtime(<< <<"C", "E", "T">>, <<"C", "E", "S", "T">> >>, <<"C", "E", "T", "-", "1", "C", "E", "S", "T">>, -3600, -7200, 1),
      Runtime(<< <<"G", "M", "T">>, <<"B", "S", "T">> >>, <<>>, 0, -3600, 1) }

MaxHour == 15

\* The two digits of n.
TwoDigits(n) == <<ToString(n \div 10), ToString(n % 10)>>

OffsetToken(sign, hh, mm) ==
    [kind |-> "offset", text |-> <<sign>> \o TwoDigits(hh) \o <<":">> \o TwoDigits(mm),
     sign |-> sign, hh |-> hh, mm |-> mm]

NameToken(text) == [kind |-> "name", text |-> text, sign |-> "", hh |-> 0, mm |-> 0]

\* sHH:MM for every hour up to MaxHour, on and off the quarter hours.
OffsetTokens ==
    {OffsetToken(sign, hh, mm) : sign \in {"+", "-"}, hh \in 0..MaxHour, mm \in {0, 15, 30, 45, 10}}

\* Every key and every alias, the local abbreviations, and words that are
\* none of these.
NameTokens ==
    {NameToken(available_timezones[i]) : i \in 1..Len(available_timezones)}
    \cup {NameToken(TZ_ADDITIONS[i].name) : i \in 1..Len(TZ_ADDITIONS)}
    \cup {NameToken(n) : n \in { <<"P", "S", "T">>, <<"P", "D", "T">>, <<"n", "o", "o", "n">>, <<"g", "m", "t">>, <<"E", "t", "c", "/", "G", "M", "T", "5">>, <<"G", "M", "T", "T", "0">>, <<"E", "u", "r", "o", "p", "e", "/", "R", "o", "m", "e">> }}

Tokens == OffsetTokens \cup NameTokens

Prefixes == { <<>>, <<"9", ":", "0", "0", " ">>, <<"9">>, <<"x">> }
Suffixes == { <<>>, <<" ">>, <<" ", "x">>, <<"0">> }

NoToken == [kind |-> "none", text |-> <<>>, sign |-> "", hh |-> 0, mm |-> 0]
NoParts == [prefix |-> <<>>, token |-> NoToken, suffix |-> <<>>]

TzInit ==
    /\ tz_pc = "start"
    /\ tz_env = NoRuntime
    /\ tz_regex = NoRegex
    /\ input_date = <<>>
    /\ tz_parts = NoParts
    /\ fullmatch = FALSE
    /\ tz_result = TzNotCalled
    /\ tz_again = TzNotCalled

\* The module is imported: tz_regex = gen_tz_regex()
TzImport(env) ==
    /\ tz_pc = "start"
    /\ tz_pc' = "imported"
    /\ tz_env' = env
    /\ tz_regex' = gen_tz_regex(env.tzname)
    /\ UNCHANGED <<input_date, tz_parts, fullmatch, tz_result, tz_again>>

\* A text is given: a token between a prefix and a suffix.
TzText(prefix, token, suffix) ==
    /\ tz_pc' = "text"
    /\ input_date' = prefix \o token.text \o suffix
    /\ tz_parts' = [prefix |-> prefix, token |-> token, suffix |-> suffix]
    /\ UNCHANGED <<tz_env, tz_regex, fullmatch, tz_result, tz_again>>

\* Some text is given, once the module is imported.
TzGive ==
    /\ tz_pc = "imported"
    /\ \E prefix \in Prefixes, token \in Tokens, suffix \in Suffixes : TzText(prefix, token, suffix)

\* search_tz(input_date, full)
SearchTz(full) ==
    /\ tz_pc = "text"
    /\ tz_pc' = "done"
    /\ fullmatch' = full
    /\ tz_result' = search_tz(tz_regex, tz_env, input_date, full)
    /\ UNCHANGED <<tz_env, tz_regex, input_date, tz_parts, tz_again>>

\* The caller scans the remainder it was given: search_tz(filtered_input)
SearchTzAgain ==
    /\ tz_pc = "done"
    /\ ~fullmatch
    /\ tz_result.found
    /\ tz_pc' = "again"
    /\ tz_again' = search_tz(tz_regex, tz_env, tz_result.filtered_input, FALSE)
    /\ UNCHANGED <<tz_env, tz_regex, input_date, tz_parts, fullmatch, tz_result>>

(***************************************************************************)
(* Properties of search_tz                                                 *)
(***************************************************************************)

TzSearched == tz_pc = "done"

\* The text is one offset sHH:MM of the scanner's range and nothing else.
OffsetAlone ==
    /\ tz_parts.prefix = <<>> /\ tz_parts.suffix = <<>>
    /\ tz_parts.token.kind = "offset"
    /\ tz_parts.token.hh <= 14
    /\ tz_parts.token.mm \in {0, 15, 30, 45}

\* s(60*HH + MM)
SignedMinutes(token) ==
    IF token.sign = "-" THEN -(60 * token.hh + token.mm) ELSE 60 * token.hh + token.mm

\* C10: search_tz(text, fullmatch=True) of an offset sHH:MM returns the
\* fixed-offset zone of s(60*HH + MM) minutes and the empty remainder, and
\* does not look in the zone database.
C10_OffsetFullMatch ==
    (TzSearched /\ fullmatch /\ OffsetAlone) =>
        tz_result = TzFound(FixedTz(SignedMinutes(tz_parts.token)), <<>>, <<>>)

\* "-05:30" gives the zone 330 minutes west.
C10_Witness ==
    /\ TzSearched /\ fullmatch /\ OffsetAlone
    /\ tz_parts.token.sign = "-"
    /\ tz_parts.token.hh = 5
    /\ tz_parts.token.mm = 30
    /\ tz_result.found
    /\ tz_result.tz = FixedTz(-330)
    /\ tz_result.filtered_input = <<>>

\* The text was written around an offset token sHH:MM.
OffsetGiven == tz_parts.token.kind = "offset"

\* -12:00 .. +14:00, in minutes east.
InOffsetRange(m) == -720 <= m /\ m <= 840

\* C11: whatever surrounds an offset token and whichever the mode, search_tz
\* produces no fixed-offset zone outside -12:00..+14:00: a token outside the
\* range is not matched as an offset.
C11_OffsetInRange ==
    (TzSearched /\ OffsetGiven /\ tz_result.found /\ tz_result.tz.type = "timezone") =>
        InOffsetRange(tz_result.tz.offset)

\* The text is one key of the zone database and nothing else.
KeyAlone ==
    /\ tz_parts.prefix = <<>> /\ tz_parts.suffix = <<>>
    /\ tz_parts.token.kind = "name"
    /\ IsZoneKey(tz_parts.token.text)

\* C12: search_tz(K, fullmatch=True) of a key K of the zone database matches
\* the whole of K and returns the named zone with key K (and the empty
\* remainder).
C12_EveryKeyRecognized ==
    (TzSearched /\ fullmatch /\ KeyAlone) =>
        /\ tz_result.found
        /\ tz_result.tz = NamedTz(Str(tz_parts.token.text))
        /\ tz_result.filtered_input = <<>>

\* The match search_tz worked on.
TzMatch ==
    IF fullmatch THEN FullMatch(tz_regex, input_date) ELSE SearchFrom(tz_regex, input_date, 1)

\* match.group(2): the name the pattern matched, <<>> when it matched an
\* offset or nothing.
MatchedName ==
    LET NameOf(m) ==
            IF m = NoMatch \/ m.group = 1 THEN <<>>
            ELSE SubSeq(input_date, m.begin, m.end - 1)
    IN  NameOf(TzMatch)

\* The name is one of time.tzname.
IsLocalName(name) == \E i \in 1..Len(tz_env.tzname) : tz_env.tzname[i] = name

\* The name is a key of TZ_ADDITIONS.
IsAlias(name) == \E i \in 1..Len(TZ_ADDITIONS) : TZ_ADDITIONS[i].name = name

\* The canonical key of an alias.
AliasKey(name) ==
    (TZ_ADDITIONS[CHOOSE i \in 1..Len(TZ_ADDITIONS) : TZ_ADDITIONS[i].name = name]).key

\* What the order of resolution gives for a matched name: the key's own
\* zone; else, for a local abbreviation, the zone of TZ when TZ is set (TZ
\* is what is looked up, and no zone but that of TZ is returned) and a
\* fixed-offset zone when it is not; else the zone of the alias; else nothing.
ResolvedInOrder(name) ==
    IF IsZoneKey(name)
    THEN /\ tz_result.found
         /\ tz_result.tz = NamedTz(Str(name))
    ELSE IF IsLocalName(name)
    THEN IF tz_env.TZ # <<>>
         THEN /\ tz_result.lookups = <<Str(name), Str(tz_env.TZ)>>
              /\ IsZoneKey(tz_env.TZ) => tz_result.found
              /\ tz_result.found => tz_result.tz = NamedTz(Str(tz_env.TZ))
         ELSE /\ tz_result.found
              /\ tz_result.tz.type = "timezone"
    ELSE IF IsAlias(name)
    THEN /\ tz_result.found
         /\ tz_result.tz = NamedTz(Str(AliasKey(name)))
    ELSE /\ ~tz_result.found
         /\ tz_result.raised = ""

WithoutSpan(text, m) == SubSeq(text, 1, m.begin - 1) \o SubSeq(text, m.end, Len(text))

\* The matched name is no key, no local abbreviation and no alias.
ResolvesToNothing(name) == ~IsZoneKey(name) /\ ~IsLocalName(name) /\ ~IsAlias(name)

\* What a returning search_tz gives for the match m.
RemainderOf(m) ==
    /\ tz_result.found =>
          /\ m # NoMatch
          /\ tz_result.tz # TzNone
          /\ tz_result.filtered_input = WithoutSpan(input_date, m)
          /\ Len(tz_result.filtered_input) = Len(input_date) - (m.end - m.begin)
    /\ (m = NoMatch \/ (m.group = 2 /\ ResolvesToNothing(MatchedName))) =>
          tz_result = TzNotFound(tz_result.lookups)
    /\ (~tz_result.found) =>
          /\ tz_result.tz = TzNone
          /\ tz_result.filtered_input = <<>>

\* C14: on success the remainder is the text with the matched span deleted,
\* nothing blanked, added or reordered, shorter by the length of the span;
\* when nothing matches, or the matched name resolves to no zone, the result
\* is (None, None); a zone and a remainder come together or not at all.
C14_RemainderIsDeletion ==
    TzSearched => RemainderOf(TzMatch)

\* "9:00 UTC x" gives "9:00  x": the two blanks around the token both stay.
C14_Witness ==
    /\ TzSearched /\ ~fullmatch
    /\ input_date = <<"9", ":", "0", "0", " ", "U", "T", "C", " ", "x">>
    /\ tz_result.found
    /\ tz_result.tz = NamedTz("UTC")
    /\ tz_result.filtered_input = <<"9", ":", "0", "0", " ", " ", "x">>

TzScannedAgain == tz_pc = "again"

\* The text holds exactly one timezone token: a key of the zone database, an
\* alias, a local abbreviation or an offset of the range, alone or set off by
\* blanks from date text that holds no token.
OneToken ==
    /\ tz_parts.prefix \in { <<>>, <<"9", ":", "0", "0", " ">> }
    /\ tz_parts.suffix \in { <<>>, <<" ">>, <<" ", "x">> }
    /\ \/ /\ tz_parts.token.kind = "name"
          /\ \/ IsZoneKey(tz_parts.token.text)
             \/ IsAlias(tz_parts.token.text)
             \/ IsLocalName(tz_parts.token.text)
       \/ /\ tz_parts.token.kind = "offset"
          /\ tz_parts.token.mm \in {0, 15, 30, 45}
          /\ InOffsetRange(SignedMinutes(tz_parts.token))

\* C15: the remainder of a scan (substring mode) of a text with exactly one
\* timezone token holds no timezone: a second scan of it returns (None, None).
C15_ScanIdempotent ==
    (TzScannedAgain /\ OneToken) => tz_again = TzNotFound(tz_again.lookups)

\* The matched name is a local abbreviation, no key of the database, and
\* the TZ variable is unset.
LocalFallback ==
    /\ TzSearched
    /\ MatchedName # <<>>
    /\ IsLocalName(MatchedName)
    /\ ~IsZoneKey(MatchedName)
    /\ tz_env.TZ = <<>>

\* The runtime's current UTC offset in minutes, local time minus UTC:
\* time.timezone and time.altzone are seconds west of UTC.
CurrentUtcOffset(env) ==
    (0 - (IF env.tm_isdst # 0 THEN env.altzone ELSE env.timezone)) \div 60

\* C22: for a local abbreviation that is no key, with TZ unset, search_tz
\* returns the fixed-offset zone of the runtime's current UTC offset, east
\* positive (5 hours behind UTC is -05:00), daylight saving counted exactly
\* when it is active.
C22_LocalOffsetEastPositive ==
    LocalFallback =>
        /\ tz_result.found
        /\ tz_result.tz = FixedTz(CurrentUtcOffset(tz_env))

\* C23: search_tz never raises: whatever the text, the anchor mode, the
\* local abbreviations and the TZ variable, it returns (Timezone,
\* remainder) or (None, None).
C23_SearchTzTotal ==
    TzSearched => tz_result.raised = ""

(***************************************************************************)
(* functions.py: parse_temporal_str                                        *)
(*                                                                         *)
(* parsedatetime is not part of the repository: what Calendar.parseDT      *)
(* answers is the caller's choice here, what it is asked is recorded.      *)
(***************************************************************************)

\* What cal.parseDT returned: the truth value and the accuracy of
\* parse_status, and the clock reading of parsed_date.
Engine(truthy, accuracy, wall) == [truthy |-> truthy, accuracy |-> accuracy, wall |-> wall]

\* What cal.parseDT was called with, if it was.
NoCal == [called |-> FALSE, text |-> <<>>, tzinfo |-> TzNone]
CalledWith(text, tzinfo) == [called |-> TRUE, text |-> text, tzinfo |-> tzinfo]

\* A parse_timezone_str that knows no timezone.
parse_timezone_str_none(regex, env, s) == Raised("ValueError", <<"Invalid timezone string">>)

\* parse_timezone_str(input_str); an exception of search_tz passes through.
parse_timezone_str(regex, env, s) ==
    LET Result(tz_result_) ==
            IF tz_result_.raised # "" THEN Raised(tz_result_.raised, <<>>)
            ELSE IF tz_result_.found THEN Returned(Tzinfo(tz_result_.tz))
            ELSE Raised("ValueError", <<"Invalid timezone string">>)
    IN  Result(search_tz(regex, env, s, TRUE))

\* A parse_datetime_str that takes whatever the engine gives.
parse_datetime_str_any(regex, env, s, engine) ==
    LET Parse(scan) ==
            [out |-> Returned(Datetime(engine.wall, scan.tz)),
             cal |-> CalledWith(IF scan.found THEN scan.filtered_input ELSE s, scan.tz)]
    IN  Parse(search_tz(regex, env, s, FALSE))

\* parse_datetime_str(input_str): the scan for a timezone, the call of
\* cal.parseDT with the remainder and the zone (or the text and None), and
\* the check of parse_status.  parsed_date carries the tzinfo it was given.
parse_datetime_str(regex, env, s, engine) ==
    LET Parse(scan) ==
            IF scan.raised # ""
            THEN [out |-> Raised(scan.raised, <<>>), cal |-> NoCal]
            ELSE [out |-> IF ~engine.truthy \/ engine.accuracy = 0
                          THEN Raised("ValueError", <<"Unable to parse the input string.">>)
                          ELSE Returned(Datetime(engine.wall, scan.tz)),
                  cal |-> CalledWith(IF scan.found THEN scan.filtered_input ELSE s, scan.tz)]
    IN  Parse(search_tz(regex, env, s, FALSE))

\* What a call of parse_temporal_str did: its outcome, the parsers it
\* tried, in order, and the call of the engine.
TermOutcome(out, tried, cal) == [out |-> out, tried |-> tried, cal |-> cal]
TermNotCalled == TermOutcome(NotCalled, <<>>, NoCal)

\* parse_temporal_str(input_str): the set of its possible outcomes (a
\* duration text may round either way).  Only ValueError is caught.
parse_temporal_str(regex, env, s, engine) ==
    LET Third(dt) ==
            TermOutcome(IF dt.out.raised = "ValueError"
                        THEN Raised("ValueError", <<"unable to parse", Str(s)>>)
                        ELSE dt.out,
                        <<"timezone", "timedelta", "datetime">>, dt.cal)
        Second(td) ==
            IF td.status = "ok"
            THEN TermOutcome(Returned(Timedelta(td.value)), <<"timezone", "timedelta">>, NoCal)
            ELSE Third(parse_datetime_str(regex, env, s, engine))
        First(tz) ==
            IF tz.raised = "ValueError"
            THEN {Second(td) : td \in parse_timedelta_str(s)}
            ELSE {TermOutcome(tz, <<"timezone">>, NoCal)}
    IN  First(parse_timezone_str(regex, env, s))

(***************************************************************************)
(* The terms of the model                                                  *)
(***************************************************************************)

\* parse_status false or true, accuracy 0 or not; parsed_date reads 09:00.
Engines == {Engine(t, a, 540) : t \in BOOLEAN, a \in {0, 1}}

\* Timezones, durations, dates with and without a timezone, and texts that
\* are none of these.
TermTexts ==
    { <<"U", "T", "C">>,
      <<"+", "0", "5", ":", "3", "0">>,
      <<"C", "E", "S", "T">>,
      <<"E", "S", "T">>,
      <<"E", "u", "r", "o", "p", "e", "/", "P", "a", "r", "i", "s">>,
      <<"1", " ", "d", "a", "y">>,
      <<"2", " ", "h">>,
      <<"0", ".", "5", "u", "s">>,
      <<"1", " ", "d", "a", "y", ",", " ", "2", " ", "h">>,
      <<"9", ":", "0", "0", " ", "U", "T", "C">>,
      <<"9", ":", "0", "0", " ", "+", "0", "5", ":", "3", "0">>,
      <<"n", "o", "o", "n", " ", "C", "E", "S", "T">>,
      <<"1", " ", "d", "a", "y", " ", "U", "T", "C">>,
      <<"t", "o", "m", "o", "r", "r", "o", "w">>,
      <<"9", ":", "0", "0">>,
      <<"f", "o", "o">>,
      <<>> }

TermInit ==
    /\ term_str = <<>>
    /\ term_engine = Engine(FALSE, 0, 0)
    /\ term_result = TermNotCalled

\* parse_temporal_str(s), the engine answering as given.
ParseTemporalStr(s, engine) ==
    /\ term_str' = s
    /\ term_engine' = engine
    /\ term_result' \in parse_temporal_str(tz_regex, tz_env, s, engine)
    /\ UNCHANGED tzVars

\* One call, once the module is imported and the previous result is taken.
TermCall ==
    /\ tz_pc = "imported"
    /\ term_result = TermNotCalled
    /\ \E s \in TermTexts, engine \in Engines : ParseTemporalStr(s, engine)

\* The caller takes the result; the next term may be given.
TermDone ==
    /\ term_result # TermNotCalled
    /\ term_str' = <<>>
    /\ term_engine' = Engine(FALSE, 0, 0)
    /\ term_result' = TermNotCalled
    /\ UNCHANGED tzVars

(***************************************************************************)
(* Properties of parse_temporal_str                                        *)
(***************************************************************************)

TermCalled == term_result # TermNotCalled

\* The parsers in the order of the claim.
Attempts == <<"timezone", "timedelta", "datetime">>

\* The whole text is a timezone token that resolves to a zone.
WholeTimezone(scan) == scan.raised = "" /\ scan.found

\* The text is a valid duration.
ValidDuration(s) == \E td \in parse_timedelta_str(s) : td.status = "ok"

\* What the engine is to be asked after the scan of the text: the remainder
\* and the zone when a token was found, the text and no zone otherwise.
EngineAsked(scan) ==
    IF scan.found THEN CalledWith(scan.filtered_input, scan.tz)
    ELSE CalledWith(term_str, TzNone)

\* What the order timezone, duration, absolute time comes to, full being the
\* scan of the whole text and part the scan inside it.
InFixedOrder(full, part) ==
    /\ term_result.tried # <<>>
    /\ term_result.tried = SubSeq(Attempts, 1, Len(term_result.tried))
    \* the timezone decides when the whole text is one
    /\ WholeTimezone(full) =>
          /\ term_result.tried = <<"timezone">>
          /\ term_result.out = Returned(Tzinfo(full.tz))
    \* the duration is tried when, and only when, the timezone failed
    /\ (full.raised = "" /\ ~full.found) <=> Len(term_result.tried) >= 2
    \* and decides when the text is a valid duration
    /\ (Len(term_result.tried) >= 2 /\ ValidDuration(term_str)) =>
          /\ term_result.tried = <<"timezone", "timedelta">>
          /\ term_result.out.raised = ""
          /\ is_timedelta(term_result.out.value)
    \* the engine is tried when, and only when, both failed
    /\ (Len(term_result.tried) >= 2 /\ ~ValidDuration(term_str)) <=>
          Len(term_result.tried) = 3
    /\ (term_result.out.raised = "" /\ is_datetime(term_result.out.value)) =>
          Len(term_result.tried) = 3
    \* and is asked the remainder with the zone, or the text with none
    /\ term_result.cal.called => Len(term_result.tried) = 3
    /\ (Len(term_result.tried) = 3 /\ part.raised = "") =>
          term_result.cal = EngineAsked(part)

\* C16: parse_temporal_str tries the full-string timezone match, then the
\* duration parse, then the absolute-time parse, each only after the ones
\* before it failed, and returns what the first that succeeds gives; the
\* engine is asked the scan's remainder with the scanned zone when the text
\* holds a timezone token, and the text itself with no zone when not.
C16_FixedOrder ==
    TermCalled =>
        InFixedOrder(search_tz(tz_regex, tz_env, term_str, TRUE),
                     search_tz(tz_regex, tz_env, term_str, FALSE))

\* "9:00 UTC": no timezone, no duration; the engine is asked "9:00 " in UTC.
C16_Witness ==
    /\ TermCalled
    /\ term_str = <<"9", ":", "0", "0", " ", "U", "T", "C">>
    /\ term_result.tried = Attempts
    /\ term_result.cal = CalledWith(<<"9", ":", "0", "0", " ">>, NamedTz("UTC"))
    /\ term_result.out = Returned(Datetime(540, NamedTz("UTC")))

\* The engine found nothing: parse_status is false or its accuracy is 0.
EngineFailed == ~term_engine.truthy \/ term_engine.accuracy = 0

\* ValueError: unable to parse "<input_str>" as either a datetime nor a timedelta
UnresolvedTerm(s) == Raised("ValueError", <<"unable to parse", Str(s)>>)

\* C17: when the engine was asked (timezone and duration failed) and found
\* nothing, parse_temporal_str raises the ValueError that carries the term's
\* text; an Instant is returned only from an engine result of accuracy
\* other than 0.
C17_ZeroConfidenceFails ==
    TermCalled =>
        /\ (term_result.cal.called /\ EngineFailed) =>
               term_result.out = UnresolvedTerm(term_str)
        /\ (term_result.out.raised = "" /\ is_datetime(term_result.out.value)) =>
               ~EngineFailed

\* "foo", the engine answering with accuracy 0.
C17_Witness ==
    /\ TermCalled
    /\ term_str = <<"f", "o", "o">>
    /\ term_engine.truthy /\ term_engine.accuracy = 0
    /\ term_result.cal.called
    /\ term_result.out = UnresolvedTerm(<<"f", "o", "o">>)

(***************************************************************************)
(* functions.py: parse_temporal_expr on the text of an expression          *)
(***************************************************************************)

\* The alternatives of the group op, in the order of the pattern.
OperatorTexts ==
    << <<"+">>, <<"-">>, <<"<">>, <<"<", "=">>, <<">">>, <<">", "=">>,
       <<"=", "=">>, <<"!", "=">>, <<"@">> >>

RECURSIVE DotRunEnd(_, _)
\* The position after the longest run of . (any character but a newline)
\* starting at p.
DotRunEnd(s, p) ==
    IF p <= Len(s) /\ s[p] # "\n" THEN DotRunEnd(s, p + 1) ELSE p

\* .+ from p: the longest first.
LazyDotPlus_greedy(s, p) == Descending(p + 1, DotRunEnd(s, p))

\* .+? from p: the end positions in the order the engine tries them, the
\* shortest first.
LazyDotPlus(s, p) == [i \in 1..(DotRunEnd(s, p) - p) |-> p + i]

\* \s+ from p: the end positions, the longest first.
SpacesPlus(s, p) == Descending(p + 1, SpaceRunEnd(s, p))

\* time_op.match(expression): the ways
\*   ^\s*(?P<a>.+?)\s+(?P<op>\+|\-|<|<=|>|>=|==|\!=|@)\s+(?P<b>.+?)\s*$
\* matches, in the engine's order; the first is the match, none is no match.
TimeOpMatches(s) ==
    LET Groups(a0, a1, op, b0, b1) ==
            IF \E p \in SpaceRunEndSet(s, b1) : AtEnd(s, p)
            THEN <<[a |-> SubSeq(s, a0, a1 - 1), op |-> op, b |-> SubSeq(s, b0, b1 - 1)]>>
            ELSE <<>>
        B(a0, a1, op, b0, ends) ==
            Concat([i \in 1..Len(ends) |-> Groups(a0, a1, op, b0, ends[i])])
        AfterOp(a0, a1, op, starts) ==
            Concat([i \in 1..Len(starts) |->
                B(a0, a1, op, starts[i], LazyDotPlus(s, starts[i]))])
        Op(a0, a1, q) ==
            Concat([k \in 1..Len(OperatorTexts) |->
                IF StartsWith(s, q, OperatorTexts[k])
                THEN AfterOp(a0, a1, OperatorTexts[k],
                             SpacesPlus(s, q + Len(OperatorTexts[k])))
                ELSE <<>>])
        AfterA(a0, a1, starts) ==
            Concat([i \in 1..Len(starts) |-> Op(a0, a1, starts[i])])
        A(a0, ends) ==
            Concat([i \in 1..Len(ends) |-> AfterA(a0, ends[i], SpacesPlus(s, ends[i]))])
        Lead(starts) ==
            Concat([i \in 1..Len(starts) |-> A(starts[i], LazyDotPlus(s, starts[i]))])
    IN  Lead(SpacesStar(s, 1))

\* str.strip()
strip(s) ==
    LET kept == {i \in 1..Len(s) : ~IsSpace(s[i])}
    IN  IF kept = {} THEN <<>>
        ELSE SubSeq(s, CHOOSE i \in kept : \A j \in kept : i <= j,
                       CHOOSE i \in kept : \A j \in kept : j <= i)

\* What a call of parse_temporal_expr did: its outcome, whether the
\* expression was split, the operator, the texts handed to
\* parse_temporal_str, in order, and the text that could not be resolved
\* (unresolved: parse_temporal_str raised its ValueError for it).
ExprOutcome(out, path, op, terms, unresolved, failed) ==
    [out |-> out, path |-> path, op |-> op, terms |-> terms,
     unresolved |-> unresolved, failed |-> failed]
ExprTextNotCalled == ExprOutcome(NotCalled, "", <<>>, <<>>, FALSE, <<>>)

\* parse_temporal_str raised its own ValueError.
IsUnresolved(t) == t.out.raised = "ValueError" /\ t.tried = <<"timezone", "timedelta", "datetime">>

\* The ValueError of line 478, which replaces that of parse_temporal_str.
GenerallyError == Raised("ValueError", <<"unable to parse the expression, generally">>)

\* No match of time_op: the expression is one term; any ValueError of
\* parse_temporal_str is replaced.
SingleTerm(expression, t) ==
    ExprOutcome(IF t.out.raised = "ValueError" THEN GenerallyError ELSE t.out,
                "single", <<>>, <<expression>>, IsUnresolved(t), expression)

\* parse_temporal_expr(expression): the set of its possible outcomes.  With
\* no match of time_op the expression is the one term; with a match the
\* terms are the trimmed groups a and b.  An exception of parse_temporal_str
\* on an operand passes through, and b is not parsed when a fails.
parse_temporal_expr(regex, env, expression, engine_a, engine_b, utcnow, local) ==
    LET Both(op, terms, ta, tb) ==
            IF tb.out.raised # ""
            THEN ExprOutcome(tb.out, "split", op, terms, IsUnresolved(tb), terms[2])
            ELSE ExprOutcome(Dispatch(ta.out.value, Str(op), tb.out.value, utcnow, local),
                             "split", op, terms, FALSE, <<>>)
        Left(op, terms, ta, tbs) ==
            IF ta.out.raised # ""
            THEN {ExprOutcome(ta.out, "split", op, <<terms[1]>>, IsUnresolved(ta), terms[1])}
            ELSE {Both(op, terms, ta, tb) : tb \in tbs}
        Outcomes(op, terms, parsed) ==
            IF Len(terms) = 1
            THEN {SingleTerm(expression, t) : t \in parsed[1]}
            ELSE UNION {Left(op, terms, ta, parsed[2]) : ta \in parsed[1]}
        Parse(op, terms) ==
            Outcomes(op, terms,
                     [i \in 1..Len(terms) |->
                         parse_temporal_str(regex, env, terms[i],
                                            IF i = 1 THEN engine_a ELSE engine_b)])
        Matched(ms) ==
            Parse(IF ms = <<>> THEN <<>> ELSE ms[1].op,
                  IF ms = <<>> THEN <<expression>>
                  ELSE <<strip(ms[1].a), strip(ms[1].b)>>)
    IN  Matched(TimeOpMatches(expression))

(***************************************************************************)
(* The expression texts of the model                                       *)
(***************************************************************************)

ExprTexts ==
    { <<"1", " ", "d", "a", "y", " ", "+", " ", "2", " ", "h">>,
      <<"1", " ", "d", "a", "y", " ", "<", "=", " ", "2", " ", "h">>,
      <<"1", " ", "d", "a", "y", " ", ">", "=", " ", "2", " ", "h">>,
      <<"1", " ", "d", "a", "y", " ", "<", " ", "2", " ", "h">>,
      <<"1", " ", "d", "a", "y", " ", "!", "=", " ", "2", " ", "h">>,
      <<"9", ":", "0", "0", " ", "U", "T", "C", " ", "@", " ", "C", "E", "S", "T">>,
      <<"U", "T", "C", " ", "=", "=", " ", "+", "0", "5", ":", "3", "0">>,
      <<"2", "0", "2", "2", "-", "0", "1", "-", "0", "1", " ", "-", " ", "1", " ", "d", "a", "y">>,
      <<"9", ":", "0", "0", " ", "+", "0", "5", ":", "3", "0", " ", "-", " ", "2", " ", "h">>,
      <<"1", " ", "d", "a", "y", " ", "-", " ", "2", " ", "h", " ", "-", " ", "f", "o", "o">>,
      <<"f", "o", "o", " ", "+", " ", "1", " ", "d", "a", "y">>,
      <<"1", " ", "d", "a", "y", " ", "+", " ", "f", "o", "o">>,
      <<"f", "o", "o">>,
      <<"1", " ", "d", "a", "y">>,
      <<" ", " ", "+", " ", "1", " ", "d", "a", "y">>,
      <<" ", "+", " ", "1", " ", "d", "a", "y">>,
      <<"1", " ", "d", "a", "y", " ", "+", " ", " ">>,
      <<"1", " ", "d", "a", "y", " ", "+", " ">>,
      <<" ", "+", " ", "1", " ", "-", " ", "2">>,
      <<"+", " ", "1", " ", "-", " ", "2">>,
      <<"1", " ", "d", "a", "y", "+", "2", " ", "h">>,
      <<"1", " ", "d", "a", "y", " ", "+", "2", " ", "h">>,
      <<" ", "1", " ", "d", "a", "y", " ", "+", " ", "2", " ", "h", " ">>,
      <<"1", " ", "d", "a", "y", " ", " ", "+", " ", " ", "2", " ", "h">>,
      <<"1", " ", "d", "a", "y", " ", "<", " ", "=", " ", "2", " ", "h">>,
      <<>> }

\* The engine either finds a date or finds nothing.
TextEngines == {Engine(TRUE, a, 540) : a \in {0, 1}}

\* datetime.utcnow(), outside and inside Europe's daylight time.
TextClock == {0, 180}

ExprTextInit ==
    /\ expr_str = <<>>
    /\ text_result = ExprTextNotCalled

\* parse_temporal_expr(e)
ParseTemporalExprText(e, engine_a, engine_b, utcnow) ==
    /\ expr_str' = e
    /\ text_result' \in parse_temporal_expr(tz_regex, tz_env, e, engine_a, engine_b, utcnow, 0)
    /\ UNCHANGED tzVars

\* One call, once the module is imported and the previous result is taken.
ExprTextCall ==
    /\ tz_pc = "imported"
    /\ text_result = ExprTextNotCalled
    /\ \E e \in ExprTexts, engine_a \in TextEngines, engine_b \in TextEngines, utcnow \in TextClock :
           ParseTemporalExprText(e, engine_a, engine_b, utcnow)

\* The caller takes the result; the next expression may be given.
ExprTextDone ==
    /\ text_result # ExprTextNotCalled
    /\ expr_str' = <<>>
    /\ text_result' = ExprTextNotCalled
    /\ UNCHANGED tzVars

(***************************************************************************)
(* parse_temporal_expr on text: the claims                                 *)
(***************************************************************************)

ExprTextCalled == text_result # ExprTextNotCalled

\* C18: every failure of parse_temporal_expr that comes from a text no
\* resolver could interpret carries that text in its message, whether the
\* text is an operand of an operator expression or the whole expression
\* resolved as a single term.
C18_FailureNamesText ==
    (ExprTextCalled /\ text_result.unresolved)
        => text_result.out = UnresolvedTerm(text_result.failed)

\* The operator tokens of the claim.
SeparatorTokens ==
    { <<"+">>, <<"-">>, <<"<">>, <<"<", "=">>, <<">">>, <<">", "=">>,
      <<"=", "=">>, <<"!", "=">>, <<"@">> }

\* The operator tokens that stand at position i of s with whitespace on both
\* sides.
TokensAt(s, i) ==
    {o \in SeparatorTokens :
        /\ i >= 2 /\ IsSpace(s[i - 1])
        /\ StartsWith(s, i, o)
        /\ i + Len(o) <= Len(s) /\ IsSpace(s[i + Len(o)])}

\* The positions of s where an operator token has whitespace on both sides.
Delimited(s) == {i \in 1..Len(s) : TokensAt(s, i) # {}}

Blank(t) == \A i \in 1..Len(t) : IsSpace(t[i])

\* Those of them with text other than whitespace before and after.
BetweenOperands(s) ==
    {i \in Delimited(s) :
        \E o \in TokensAt(s, i) :
            /\ ~Blank(SubSeq(s, 1, i - 1))
            /\ ~Blank(SubSeq(s, i + Len(o), Len(s)))}

Leftmost(ps) == CHOOSE i \in ps : \A j \in ps : i <= j

\* r is a split of s at the token at i: the operator is that token, the
\* left operand is the trimmed text before it and the right operand, when
\* it was reached, is the trimmed text after it, whatever it holds.
SplitAt(s, i, r) ==
    \E o \in TokensAt(s, i) :
        /\ r.path = "split"
        /\ r.op = o
        /\ r.terms[1] = strip(SubSeq(s, 1, i - 1))
        /\ Len(r.terms) = 2 => r.terms[2] = strip(SubSeq(s, i + Len(o), Len(s)))

\* r resolved s as a single term, with no operator.
AsSingleTerm(s, r) == r.path = "single" /\ r.op = <<>> /\ r.terms = <<s>>

\* C19, as stated: the split is at the leftmost operator token with
\* whitespace on both sides, and there is none only when no such token
\* exists.
C19_LeftmostDelimited ==
    ExprTextCalled =>
        IF Delimited(expr_str) = {}
        THEN AsSingleTerm(expr_str, text_result)
        ELSE SplitAt(expr_str, Leftmost(Delimited(expr_str)), text_result)

\* C19: a split is always at an operator token with whitespace on both
\* sides, the operator being the whole token ("<=", not "<"); when a token
\* stands between two texts that are not blank, the split is at the leftmost
\* such token and everything after it is the right operand; when no token
\* has whitespace on both sides the expression is resolved as a single term.
C19_LeftmostBetweenOperands ==
    ExprTextCalled =>
        /\ text_result.path = "split" =>
               \E i \in Delimited(expr_str) : SplitAt(expr_str, i, text_result)
        /\ BetweenOperands(expr_str) # {} =>
               SplitAt(expr_str, Leftmost(BetweenOperands(expr_str)), text_result)
        /\ Delimited(expr_str) = {} => AsSingleTerm(expr_str, text_result)

\* "1 day - 2 h - foo" was split at the first "-" and the second went to the
\* right operand.
C19_Witness ==
    /\ expr_str = <<"1", " ", "d", "a", "y", " ", "-", " ", "2", " ", "h", " ", "-", " ", "f", "o", "o">>
    /\ text_result.path = "split"
    /\ text_result.op = <<"-">>
    /\ text_result.terms = << <<"1", " ", "d", "a", "y">>,
                             <<"2", " ", "h", " ", "-", " ", "f", "o", "o">> >>

\* C20: on the split path every text handed to parse_temporal_str is
\* non-empty after trimming.
C20_OperandsNonEmpty ==
    (ExprTextCalled /\ text_result.path = "split")
        => \A i \in 1..Len(text_result.terms) : text_result.terms[i] # <<>>

(***************************************************************************)
(* timedelta.py: the text of a Duration                                    *)
(*                                                                         *)
(* A text is the sequence of its Unicode code points.                      *)
(***************************************************************************)

\* TDC.keys
TDC_keys ==
    <<"year", "month", "week", "day", "hour", "minute", "second",
      "microsecond", "millisecond">>

\* extract_components: units, down to the second.
units ==
    << [unit |-> "year", length_in_seconds |-> 31536000],
       [unit |-> "month", length_in_seconds |-> 2592000],
       [unit |-> "week", length_in_seconds |-> 604800],
       [unit |-> "day", length_in_seconds |-> 86400],
       [unit |-> "hour", length_in_seconds |-> 3600],
       [unit |-> "minute", length_in_seconds |-> 60],
       [unit |-> "second", length_in_seconds |-> 1] >>

NoComponents ==
    [year |-> 0, month |-> 0, week |-> 0, day |-> 0, hour |-> 0, minute |-> 0,
     second |-> 0, millisecond |-> 0, microsecond |-> 0]

RECURSIVE WholeUnits(_, _, _, _)
\* extract_components: the loop over the units of a second and more, on the
\* whole seconds of total_seconds, where the float arithmetic is exact.
WholeUnits(total_seconds, sign, i, components) ==
    IF i > Len(units) THEN components
    ELSE LET units_total == total_seconds \div units[i].length_in_seconds
         IN  WholeUnits(total_seconds - units_total * units[i].length_in_seconds, sign, i + 1,
                        [components EXCEPT ![units[i].unit] = sign * units_total])

\* extract_components: total_seconds // 1e-3 on the fraction of a second,
\* given here in microseconds.  total_seconds is a double and so is 1e-3:
\* the quotient is the whole number of milliseconds, or one less when the
\* fraction is a whole number of milliseconds and its double lies below it.
FloorDivMilli(frac) ==
    {frac \div 1000} \cup (IF frac % 1000 = 0 /\ frac > 0 THEN {(frac \div 1000) - 1} ELSE {})

\* extract_components: total_seconds // 1e-6 on what is left, in
\* microseconds: the whole number, or one less when the double of what is
\* left lies below it.
FloorDivMicro(rest) ==
    IF rest = 0 THEN {0} ELSE {rest, rest - 1}

\* TDC.extract_components(td), td a normalized timedelta: the set of the
\* component dicts the double arithmetic can give.  total_seconds is
\* negative exactly when days is.
extract_components(td) ==
    LET sign == IF td.days < 0 THEN -1 ELSE 1
        Sub(whole, frac, ms) ==
            {[whole EXCEPT !.millisecond = sign * ms[1], !.microsecond = sign * us] :
                us \in FloorDivMicro(frac - ms[1] * 1000)}
        Parts(whole, frac) ==
            UNION {Sub(WholeUnits(whole, sign, 1, NoComponents), frac, <<ms>>) :
                       ms \in FloorDivMilli(frac)}
        Abs(seconds, microseconds) ==
            IF seconds >= 0 THEN Parts(seconds, microseconds)
            ELSE IF microseconds > 0 THEN Parts(0 - seconds - 1, 1000000 - microseconds)
            ELSE Parts(0 - seconds, 0)
    IN  Abs(td.days * 86400 + td.seconds, td.microseconds)

RECURSIVE NatText(_)
NatText(n) == IF n < 10 THEN <<48 + n>> ELSE NatText(n \div 10) \o <<48 + (n % 10)>>

\* f"{n}" of an int
IntText(n) == IF n < 0 THEN <<45>> \o NatText(0 - n) ELSE NatText(n)

abs(n) == IF n < 0 THEN 0 - n ELSE n

RECURSIVE join(_, _)
\* separator.join(items)
join(separator, items) ==
    IF items = <<>> THEN <<>>
    ELSE IF Len(items) = 1 THEN items[1]
    ELSE items[1] \o separator \o join(separator, Tail(items))

\* The keys of TDC.keys whose component is not zero, in the order of
\* TDC.keys: for key in self.keys if self[key]
TruthyKeys(tdc) == SelectSeq(TDC_keys, LAMBDA key : tdc[key] # 0)

\* TDC.labeled_values(labels)
labeled_values(tdc, labels) ==
    LET Each(keys) ==
            [i \in 1..Len(keys) |->
                IntText(tdc[keys[i]]) \o <<32>>
                    \o (IF abs(tdc[keys[i]]) = 1 THEN labels[keys[i]][1] ELSE labels[keys[i]][2])]
    IN  Each(TruthyKeys(tdc))

format_standard(tdc, labels, separator) == join(separator, labeled_values(tdc, labels))

format_no_space(tdc, labels, separator) ==
    LET Each(keys) == [i \in 1..Len(keys) |-> IntText(tdc[keys[i]]) \o labels[keys[i]]]
    IN  join(separator, Each(TruthyKeys(tdc)))

format_with_space(tdc, labels, separator) ==
    LET Each(keys) == [i \in 1..Len(keys) |-> IntText(tdc[keys[i]]) \o <<32>> \o labels[keys[i]]]
    IN  join(separator, Each(TruthyKeys(tdc)))

pluralize_ru(quantity, forms) ==
    LET abs_qty == abs(quantity)
    IN  IF abs_qty % 10 = 1 /\ abs_qty % 100 # 11
        THEN IntText(quantity) \o <<32>> \o forms[1]
        ELSE IF abs_qty % 10 \in {2, 3, 4} /\ abs_qty % 100 \notin {12, 13, 14}
        THEN IntText(quantity) \o <<32>> \o forms[2]
        ELSE IntText(quantity) \o <<32>> \o forms[3]

format_russian(tdc, labels, separator) ==
    LET Each(keys) == [i \in 1..Len(keys) |-> pluralize_ru(tdc[keys[i]], labels[keys[i]])]
    IN  join(separator, Each(TruthyKeys(tdc)))

\* ", ", the default separator
CommaSpace == <<44, 32>>

\* LABELS_EN, each label by its Unicode code points.
LABELS_EN ==
    [ year |-> << <<121, 101, 97, 114>>, <<121, 101, 97, 114, 115>> >>,
      month |-> << <<109, 111, 110, 116, 104>>, <<109, 111, 110, 116, 104, 115>> >>,
      week |-> << <<119, 101, 101, 107>>, <<119, 101, 101, 107, 115>> >>,
      day |-> << <<100, 97, 121>>, <<100, 97, 121, 115>> >>,
      hour |-> << <<104, 111, 117, 114>>, <<104, 111, 117, 114, 115>> >>,
      minute |-> << <<109, 105, 110, 117, 116, 101>>, <<109, 105, 110, 117, 116, 101, 115>> >>,
      second |-> << <<115, 101, 99, 111, 110, 100>>, <<115, 101, 99, 111, 110, 100, 115>> >>,
      millisecond |-> << <<109, 105, 108, 108, 105, 115, 101, 99, 111, 110, 100>>, <<109, 105, 108, 108, 105, 115, 101, 99, 111, 110, 100, 115>> >>,
      microsecond |-> << <<109, 105, 99, 114, 111, 115, 101, 99, 111, 110, 100>>, <<109, 105, 99, 114, 111, 115, 101, 99, 111, 110, 100, 115>> >> ]

\* LABELS_ES, each label by its Unicode code points.
LABELS_ES ==
    [ year |-> << <<97, 241, 111>>, <<97, 241, 111, 115>> >>,
      month |-> << <<109, 101, 115>>, <<109, 101, 115, 101, 115>> >>,
      week |-> << <<115, 101, 109, 97, 110, 97>>, <<115, 101, 109, 97, 110, 97, 115>> >>,
      day |-> << <<100, 237, 97>>, <<100, 237, 97, 115>> >>,
      hour |-> << <<104, 111, 114, 97>>, <<104, 111, 114, 97, 115>> >>,
      minute |-> << <<109, 105, 110, 117, 116, 111>>, <<109, 105, 110, 117, 116, 111, 115>> >>,
      second |-> << <<115, 101, 103, 117, 110, 100, 111>>, <<115, 101, 103, 117, 110, 100, 111, 115>> >>,
      millisecond |-> << <<109, 105, 108, 105, 115, 101, 103, 117, 110, 100, 111>>, <<109, 105, 108, 105, 115, 101, 103, 117, 110, 100, 111, 115>> >>,
      microsecond |-> << <<109, 105, 99, 114, 111, 115, 101, 103, 117, 110, 100, 111>>, <<109, 105, 99, 114, 111, 115, 101, 103, 117, 110, 100, 111, 115>> >> ]

\* LABELS_HI, each label by its Unicode code points.
LABELS_HI ==
    [ year |-> << <<2357, 2352, 2381, 2359>>, <<2357, 2352, 2381, 2359>> >>,
      month |-> << <<2350, 2361, 2368, 2344, 2366>>, <<2350, 2361, 2368, 2344, 2375>> >>,
      week |-> << <<2360, 2346, 2381, 2340, 2366, 2361>>, <<2360, 2346, 2381, 2340, 2366, 2361>> >>,
      day |-> << <<2342, 2367, 2344>>, <<2342, 2367, 2344>> >>,
      hour |-> << <<2328, 2306, 2335, 2366>>, <<2328, 2306, 2335, 2375>> >>,
      minute |-> << <<2350, 2367, 2344, 2335>>, <<2350, 2367, 2344, 2335>> >>,
      second |-> << <<2360, 2375, 2325, 2306, 2337>>, <<2360, 2375, 2325, 2306, 2337>> >>,
      millisecond |-> << <<2350, 2367, 2354, 2368, 2360, 2375, 2325, 2306, 2337>>, <<2350, 2367, 2354, 2368, 2360, 2375, 2325, 2306, 2337>> >>,
      microsecond |-> << <<2350, 2366, 2311, 2325, 2381, 2352, 2379, 2360, 2375, 2325, 2306, 2337>>, <<2350, 2366, 2311, 2325, 2381, 2352, 2379, 2360, 2375, 2325, 2306, 2337>> >> ]

\* LABELS_BN, each label by its Unicode code points.
LABELS_BN ==
    [ year |-> << <<2476, 2459, 2480>>, <<2476, 2459, 2480>> >>,
      month |-> << <<2478, 2494, 2488>>, <<2478, 2494, 2488>> >>,
      week |-> << <<2488, 2474, 2509, 2468, 2494, 2489>>, <<2488, 2474, 2509, 2468, 2494, 2489>> >>,
      day |-> << <<2470, 2495, 2472>>, <<2470, 2495, 2472>> >>,
      hour |-> << <<2456, 2467, 2509, 2463, 2494>>, <<2456, 2467, 2509, 2463, 2494>> >>,
      minute |-> << <<2478, 2495, 2472, 2495, 2463>>, <<2478, 2495, 2472, 2495, 2463>> >>,
      second |-> << <<2488, 2503, 2453, 2503, 2472, 2509, 2465>>, <<2488, 2503, 2453, 2503, 2472, 2509, 2465>> >>,
      millisecond |-> << <<2478, 2495, 2482, 2495, 2488, 2503, 2453, 2503, 2472, 2509, 2465>>, <<2478, 2495, 2482, 2495, 2488, 2503, 2453, 2503, 2472, 2509, 2465>> >>,
      microsecond |-> << <<2478, 2494, 2439, 2453, 2509, 2480, 2507, 2488, 2503, 2453, 2503, 2472, 2509, 2465>>, <<2478, 2494, 2439, 2453, 2509, 2480, 2507, 2488, 2503, 2453, 2503, 2472, 2509, 2465>> >> ]

\* LABELS_PT, each label by its Unicode code points.
LABELS_PT ==
    [ year |-> << <<97, 110, 111>>, <<97, 110, 111, 115>> >>,
      month |-> << <<109, 234, 115>>, <<109, 101, 115, 101, 115>> >>,
      week |-> << <<115, 101, 109, 97, 110, 97>>, <<115, 101, 109, 97, 110, 97, 115>> >>,
      day |-> << <<100, 105, 97>>, <<100, 105, 97, 115>> >>,
      hour |-> << <<104, 111, 114, 97>>, <<104, 111, 114, 97, 115>> >>,
      minute |-> << <<109, 105, 110, 117, 116, 111>>, <<109, 105, 110, 117, 116, 111, 115>> >>,
      second |-> << <<115, 101, 103, 117, 110, 100, 111>>, <<115, 101, 103, 117, 110, 100, 111, 115>> >>,
      millisecond |-> << <<109, 105, 108, 105, 115, 115, 101, 103, 117, 110, 100, 111>>, <<109, 105, 108, 105, 115, 115, 101, 103, 117, 110, 100, 111, 115>> >>,
      microsecond |-> << <<109, 105, 99, 114, 111, 115, 115, 101, 103, 117, 110, 100, 111>>, <<109, 105, 99, 114, 111, 115, 115, 101, 103, 117, 110, 100, 111, 115>> >> ]

\* LABELS_TR, each label by its Unicode code points.
LABELS_TR ==
    [ year |-> << <<121, 305, 108>>, <<121, 305, 108>> >>,
      month |-> << <<97, 121>>, <<97, 121>> >>,
      week |-> << <<104, 97, 102, 116, 97>>, <<104, 97, 102, 116, 97>> >>,
      day |-> << <<103, 252, 110>>, <<103, 252, 110>> >>,
      hour |-> << <<115, 97, 97, 116>>, <<115, 97, 97, 116>> >>,
      minute |-> << <<100, 97, 107, 105, 107, 97>>, <<100, 97, 107, 105, 107, 97>> >>,
      second |-> << <<115, 97, 110, 105, 121, 101>>, <<115, 97, 110, 105, 121, 101>> >>,
      millisecond |-> << <<109, 105, 108, 105, 115, 97, 110, 105, 121, 101>>, <<109, 105, 108, 105, 115, 97, 110, 105, 121, 101, 108, 101, 114>> >>,
      microsecond |-> << <<109, 105, 107, 114, 111, 115, 97, 110, 105, 121, 101>>, <<109, 105, 107, 114, 111, 115, 97, 110, 105, 121, 101, 108, 101, 114>> >> ]

\* LABELS_ZH, each label by its Unicode code points.
LABELS_ZH ==
    [ year |-> <<24180>>,
      month |-> <<20010, 26376>>,
      week |-> <<21608>>,
      day |-> <<22825>>,
      hour |-> <<23567, 26102>>,
      minute |-> <<20998, 38047>>,
      second |-> <<31186>>,
      millisecond |-> <<27627, 31186>>,
      microsecond |-> <<24494, 31186>> ]

\* LABELS_JA, each label by its Unicode code points.
LABELS_JA ==
    [ year |-> <<24180>>,
      month |-> <<12534, 26376>>,
      week |-> <<36913, 38291>>,
      day |-> <<26085>>,
      hour |-> <<26178, 38291>>,
      minute |-> <<20998>>,
      second |-> <<31186>>,
      millisecond |-> <<12511, 12522, 31186>>,
      microsecond |-> <<12510, 12452, 12463, 12525, 31186>> ]

\* LABELS_VI, each label by its Unicode code points.
LABELS_VI ==
    [ year |-> <<110, 259, 109>>,
      month |-> <<116, 104, 225, 110, 103>>,
      week |-> <<116, 117, 7847, 110>>,
      day |-> <<110, 103, 224, 121>>,
      hour |-> <<103, 105, 7901>>,
      minute |-> <<112, 104, 250, 116>>,
      second |-> <<103, 105, 226, 121>>,
      millisecond |-> <<109, 105, 108, 105, 32, 103, 105, 226, 121>>,
      microsecond |-> <<109, 105, 99, 114, 111, 32, 103, 105, 226, 121>> ]

\* LABELS_MR, each label by its Unicode code points.
LABELS_MR ==
    [ year |-> <<2357, 2352, 2381, 2359>>,
      month |-> <<2350, 2361, 2367, 2344, 2375>>,
      week |-> <<2310, 2336, 2357, 2337, 2375>>,
      day |-> <<2342, 2367, 2357, 2360>>,
      hour |-> <<2340, 2366, 2360>>,
      minute |-> <<2350, 2367, 2344, 2367, 2335, 2375>>,
      second |-> <<2360, 2375, 2325, 2306, 2342>>,
      millisecond |-> <<2350, 2367, 2354, 2368, 2360, 2375, 2325, 2306, 2342>>,
      microsecond |-> <<2350, 2366, 2351, 2325, 2381, 2352, 2379, 2360, 2375, 2325, 2306, 2342>> ]

\* LABELS_RU, each label by its Unicode code points.
LABELS_RU ==
    [ year |-> << <<1075, 1086, 1076>>, <<1075, 1086, 1076, 1072>>, <<1083, 1077, 1090>> >>,
      month |-> << <<1084, 1077, 1089, 1103, 1094>>, <<1084, 1077, 1089, 1103, 1094, 1072>>, <<1084, 1077, 1089, 1103, 1094, 1077, 1074>> >>,
      week |-> << <<1085, 1077, 1076, 1077, 1083, 1103>>, <<1085, 1077, 1076, 1077, 1083, 1080>>, <<1085, 1077, 1076, 1077, 1083, 1100>> >>,
      day |-> << <<1076, 1077, 1085, 1100>>, <<1076, 1085, 1103>>, <<1076, 1085, 1077, 1081>> >>,
      hour |-> << <<1095, 1072, 1089>>, <<1095, 1072, 1089, 1072>>, <<1095, 1072, 1089, 1086, 1074>> >>,
      minute |-> << <<1084, 1080, 1085, 1091, 1090, 1072>>, <<1084, 1080, 1085, 1091, 1090, 1099>>, <<1084, 1080, 1085, 1091, 1090>> >>,
      second |-> << <<1089, 1077, 1082, 1091, 1085, 1076, 1072>>, <<1089, 1077, 1082, 1091, 1085, 1076, 1099>>, <<1089, 1077, 1082, 1091, 1085, 1076>> >>,
      millisecond |-> << <<1084, 1080, 1083, 1083, 1080, 1089, 1077, 1082, 1091, 1085, 1076, 1072>>, <<1084, 1080, 1083, 1083, 1080, 1089, 1077, 1082, 1091, 1085, 1076, 1099>>, <<1084, 1080, 1083, 1083, 1080, 1089, 1077, 1082, 1091, 1085, 1076>> >>,
      microsecond |-> << <<1084, 1080, 1082, 1088, 1086, 1089, 1077, 1082, 1091, 1085, 1076, 1072>>, <<1084, 1080, 1082, 1088, 1086, 1089, 1077, 1082, 1091, 1085, 1076, 1099>>, <<1084, 1080, 1082, 1088, 1086, 1089, 1077, 1082, 1091, 1085, 1076>> >> ]

\* duration_to_string: handlers, the formatter of each language code
\* (duration_to_string_zh, ..., duration_to_string_mr).
handlers ==
    [ zh |-> [format |-> "no_space", labels |-> LABELS_ZH, separator |-> <<65292, 32>>],
      es |-> [format |-> "standard", labels |-> LABELS_ES, separator |-> CommaSpace],
      en |-> [format |-> "standard", labels |-> LABELS_EN, separator |-> CommaSpace],
      hi |-> [format |-> "standard", labels |-> LABELS_HI, separator |-> CommaSpace],
      pt |-> [format |-> "standard", labels |-> LABELS_PT, separator |-> CommaSpace],
      bn |-> [format |-> "standard", labels |-> LABELS_BN, separator |-> CommaSpace],
      ru |-> [format |-> "russian", labels |-> LABELS_RU, separator |-> CommaSpace],
      ja |-> [format |-> "no_space", labels |-> LABELS_JA, separator |-> <<12289>>],
      vi |-> [format |-> "with_space", labels |-> LABELS_VI, separator |-> CommaSpace],
      tr |-> [format |-> "standard", labels |-> LABELS_TR, separator |-> CommaSpace],
      mr |-> [format |-> "with_space", labels |-> LABELS_MR, separator |-> CommaSpace] ]

\* handler(td), on the components tdc = TDC(td).
handler(h, tdc) ==
    CASE h.format = "standard"   -> format_standard(tdc, h.labels, h.separator)
      [] h.format = "no_space"   -> format_no_space(tdc, h.labels, h.separator)
      [] h.format = "with_space" -> format_with_space(tdc, h.labels, h.separator)
      [] h.format = "russian"    -> format_russian(tdc, h.labels, h.separator)

\* locale_name.split("_", 1)[0]
BeforeUnderscore(name) ==
    LET at == {i \in 1..Len(name) : name[i] = "_"}
    IN  IF at = {} THEN name
        ELSE SubSeq(name, 1, (CHOOSE i \in at : \A j \in at : i <= j) - 1)

\* locale_dict()["lang_code"], locale_name being the first item of
\* locale.getlocale(), <<>> for None.
locale_dict(locale_name) == [lang_code |-> Str(BeforeUnderscore(locale_name))]

\* What duration_to_string did: the text it returned or the exception it
\* raised, and the components it formatted.
FmtReturned(text, tdc) == [raised |-> "", text |-> text, tdc |-> tdc]
FmtRaised(exc) == [raised |-> exc, text |-> <<>>, tdc |-> NoComponents]
FmtNotCalled == [raised |-> "none", text |-> <<>>, tdc |-> NoComponents]

\* duration_to_string(td, localize) under the locale locale_name: the set
\* of its possible outcomes.
duration_to_string(td, localize, locale_name) ==
    LET Handle(lang_code) ==
            IF lang_code \notin DOMAIN handlers THEN {FmtRaised("RuntimeError")}
            ELSE {FmtReturned(handler(handlers[lang_code], tdc), tdc) : tdc \in extract_components(td)}
    IN  Handle(IF localize THEN locale_dict(locale_name).lang_code ELSE "en")

(***************************************************************************)
(* The Durations and the locales of the model                              *)
(***************************************************************************)

\* locale.getlocale()[0]: None (the C and POSIX locales), the eleven
\* languages, two more languages, and a name with no territory.
Locales ==
    { <<>>,
      <<"e", "n", "_", "U", "S">>, <<"e", "s", "_", "E", "S">>, <<"z", "h", "_", "C", "N">>,
      <<"h", "i", "_", "I", "N">>, <<"p", "t", "_", "B", "R">>, <<"b", "n", "_", "B", "D">>,
      <<"r", "u", "_", "R", "U">>, <<"j", "a", "_", "J", "P">>, <<"v", "i", "_", "V", "N">>,
      <<"t", "r", "_", "T", "R">>, <<"m", "r", "_", "I", "N">>,
      <<"d", "e", "_", "D", "E">>, <<"f", "r", "_", "F", "R">>, <<"e", "n">> }

FmtDays == {-1, 0, 1, 2, 37, 403}
FmtSeconds == {0, 1, 3661, 86399}
FmtMicroseconds == {0, 1, 7, 13, 1000, 5007, 23000, 999999}

\* The normalized Durations.
FmtDurations ==
    {TdNorm(d, s, us) : d \in FmtDays, s \in FmtSeconds, us \in FmtMicroseconds}

FmtInit ==
    /\ fmt_td = TdZero
    /\ fmt_locale = <<>>
    /\ fmt_localize = FALSE
    /\ fmt_result = FmtNotCalled

\* duration_to_string(td, localize), the process's locale being locale_name
DurationToString(td, localize, locale_name) ==
    /\ fmt_td' = td
    /\ fmt_locale' = locale_name
    /\ fmt_localize' = localize
    /\ fmt_result' \in duration_to_string(td, localize, locale_name)

\* One call, once the previous result is taken.
FmtCall ==
    /\ fmt_result = FmtNotCalled
    /\ \E td \in FmtDurations, localize \in BOOLEAN, locale_name \in Locales :
           DurationToString(td, localize, locale_name)

\* The caller takes the text; the next Duration may be given.
FmtDone ==
    /\ fmt_result # FmtNotCalled
    /\ fmt_td' = TdZero
    /\ fmt_locale' = <<>>
    /\ fmt_localize' = FALSE
    /\ fmt_result' = FmtNotCalled

(***************************************************************************)
(* The text of a Duration: the claims                                      *)
(***************************************************************************)

FmtCalled == fmt_result # FmtNotCalled

\* C21: duration_to_string never raises: for every normalized Duration and
\* every locale of the process, a locale with no language code or with a
\* language that is not one of the eleven included, it returns text.
C21_NeverRaises ==
    FmtCalled => fmt_result.raised = ""

\* The units from the largest to the smallest.
DescendingUnits ==
    <<"year", "month", "week", "day", "hour", "minute", "second",
      "millisecond", "microsecond">>

\* The formatter that made the text.
FmtHandler ==
    handlers[IF fmt_localize THEN locale_dict(fmt_locale).lang_code ELSE "en"]

\* Whether sep stands at position p of text.
SeparatorAt(text, sep, p) ==
    /\ p + Len(sep) - 1 <= Len(text)
    /\ SubSeq(text, p, p + Len(sep) - 1) = sep

RECURSIVE SplitText(_, _)
\* text.split(sep)
SplitText(text, sep) ==
    LET at == {p \in 1..Len(text) : SeparatorAt(text, sep, p)}
        Cut(p) == <<SubSeq(text, 1, p - 1)>> \o SplitText(SubSeq(text, p + Len(sep), Len(text)), sep)
    IN  IF at = {} THEN <<text>>
        ELSE Cut(CHOOSE p \in at : \A q \in at : p <= q)

RECURSIVE AfterNumber(_)
\* A component of the text without its number and the space after it.
AfterNumber(piece) ==
    IF piece # <<>> /\ (piece[1] = 45 \/ piece[1] \in 48..57 \/ piece[1] = 32)
    THEN AfterNumber(Tail(piece))
    ELSE piece

\* The labels of a unit in a language.
LabelForms(h, key) ==
    IF h.format \in {"standard", "russian"}
    THEN {h.labels[key][i] : i \in 1..Len(h.labels[key])}
    ELSE {h.labels[key]}

\* The unit a label names, "" when it names none.
UnitOfLabel(h, label) ==
    IF \E i \in 1..Len(DescendingUnits) : label \in LabelForms(h, DescendingUnits[i])
    THEN DescendingUnits[CHOOSE i \in 1..Len(DescendingUnits) :
                             label \in LabelForms(h, DescendingUnits[i])]
    ELSE ""

\* The units the text lists, in the order of the text.
ListedUnits(text, h) ==
    LET Each(pieces) == [i \in 1..Len(pieces) |-> UnitOfLabel(h, AfterNumber(pieces[i]))]
    IN  IF text = <<>> THEN <<>> ELSE Each(SplitText(text, h.separator))

\* C24: the text lists the components that are not zero, each once, from
\* the largest unit to the smallest: year, month, week, day, hour, minute,
\* second, millisecond, microsecond, in every language.
C24_DescendingUnits ==
    (FmtCalled /\ fmt_result.raised = "")
        => ListedUnits(fmt_result.text, FmtHandler)
               = SelectSeq(DescendingUnits, LAMBDA key : fmt_result.tdc[key] # 0)

(***************************************************************************)
(* The specifications                                                      *)
(***************************************************************************)

Init == TdInit /\ ExprInit /\ TzInit /\ TermInit /\ ExprTextInit /\ FmtInit

\* The unit texts.
DurNext ==
    /\ \/ \E f \in UnitFields : TdAddField(f)
       \/ TdParse
    /\ UNCHANGED <<exprVars, tzVars, termVars, textVars, fmtVars>>

SpecDur == Init /\ [][DurNext]_vars

\* The grammar texts.
DurSepNext ==
    /\ \/ \E f \in SepFields : TdAddField(f)
       \/ \E t \in Tails : TdAddTail(t)
       \/ TdParse
    /\ UNCHANGED <<exprVars, tzVars, termVars, textVars, fmtVars>>

SpecDurSep == Init /\ [][DurSepNext]_vars

\* The expressions.
ExprNext ==
    /\ \/ ExprCall
       \/ ExprDone
    /\ UNCHANGED <<tdVars, tzVars, termVars, textVars, fmtVars>>

SpecExpr == Init /\ [][ExprNext]_vars

\* The timezone texts.
TzNext ==
    /\ \/ \E env \in Runtimes : TzImport(env)
       \/ TzGive
       \/ \E full \in BOOLEAN : SearchTz(full)
       \/ SearchTzAgain
    /\ UNCHANGED <<tdVars, exprVars, termVars, textVars, fmtVars>>

SpecTz == Init /\ [][TzNext]_vars

\* The terms.
TermNext ==
    \/ /\ \E env \in Runtimes : TzImport(env)
       /\ UNCHANGED <<tdVars, exprVars, termVars, textVars, fmtVars>>
    \/ /\ \/ TermCall
          \/ TermDone
       /\ UNCHANGED <<tdVars, exprVars, textVars, fmtVars>>

SpecTerm == Init /\ [][TermNext]_vars

\* parse_temporal_expr on the text of an expression.
TextNext ==
    \/ /\ \E env \in Runtimes : TzImport(env)
       /\ UNCHANGED <<tdVars, exprVars, termVars, textVars, fmtVars>>
    \/ /\ \/ ExprTextCall
          \/ ExprTextDone
       /\ UNCHANGED <<tdVars, exprVars, termVars, fmtVars>>

SpecText == Init /\ [][TextNext]_vars

\* The texts of Durations.
FmtNext ==
    /\ \/ FmtCall
       \/ FmtDone
    /\ UNCHANGED <<tdVars, exprVars, tzVars, termVars, textVars>>

SpecFmt == Init /\ [][FmtNext]_vars

Next == DurNext \/ DurSepNext \/ ExprNext \/ TzNext \/ TermNext \/ TextNext \/ FmtNext

Spec == Init /\ [][Next]_vars

=============================================================================
